---- MODULE Spec2Model ----
(***************************************************************************)
(* Risk worker of the social-engineering defense trainer                   *)
(* (src/apps/workers/workers/risk_worker.py): user and cohort risk         *)
(* scoring, the shared key-value store it writes, the adaptive action      *)
(* dispatcher and the cohort trend classification.                         *)
(*                                                                         *)
(* Numbers.  Scores are Python floats; here a score is an integer number   *)
(* of hundredths of a point (35.0 is 3500), weights are hundredths (0.35   *)
(* is 35) and factor values are integers.  The event tables the model      *)
(* draws from (Profiles) have rates that are whole percentages, so every   *)
(* product and sum below is exact.  A cohort average is an integer number  *)
(* of 1/AvgUnit hundredths of a point, AvgUnit being the least common      *)
(* multiple of the possible cohort sizes, so that the mean is exact too.   *)
(***************************************************************************)
EXTENDS Integers, Sequences, FiniteSets, TLC

\* ------------------------------------------------------------------ bounds
\* Requests the worker instances take, all together.
MaxRequests == 2
\* Longest user_ids list of a cohort request.
MaxCohortSize == 4
\* Last day of the clock.
MaxTime == 31
\* Longest trend history list the store holds in the trend specification.
MaxHistoryLen == 6
\* Calls of start() on the worker instance.
MaxStarts == 2
\* Cycles of the periodic tasks that fail.
MaxFailures == 2
\* Most users counted by a stored cohort snapshot in the recommendation specification.
MaxSnapshotUsers == 10

\* --------------------------------------------------------- program constants
RecentDays == 30
UserRiskTTL == 86400
MonitoringTTL == 604800
HistoryLast == 4
HighRiskMin == 75
HighRiskMax == 100
TimeToReportDefault == 50
TrendDelta == 5
CycleSeconds == 3600
RetrySeconds == 300

\* ------------------------------------------------------------------ domains
Workers == {"w1", "w2"}
Users == {"u1", "u2"}
Orgs == {"o1"}
Cohorts == {"c1"}
\* The user whose recalculations run concurrently in Spec.
Subject == "u1"
\* data.get(...) of a key the request lacks
None == "None"

EventTypes == {"email_sent", "sms_sent", "email_clicked", "sms_clicked",
               "email_reported", "sms_reported", "training_started",
               "training_completed", "landing_form_submitted"}
IncidentTypes == {"email_clicked", "sms_clicked", "landing_form_submitted"}

FactorNames == {"click_rate", "report_rate", "training_completion",
                "recent_incidents", "time_to_report", "repeat_offender"}

\* Hundredths of a point in one point.
Unit == 10 * 10

Min(a, b) == IF a < b THEN a ELSE b
Max(a, b) == IF a > b THEN a ELSE b

RECURSIVE Gcd(_, _)
Gcd(a, b) == IF b = 0 THEN a ELSE Gcd(b, a % b)

RECURSIVE LcmUpTo(_)
LcmUpTo(n) == IF n <= 1 THEN 1
              ELSE LET l == LcmUpTo(n - 1) IN (l * n) \div Gcd(l, n)

\* Averages are kept in 1/AvgUnit hundredths of a point.
AvgUnit == LcmUpTo(MaxCohortSize)

\* ------------------------------------------------------------ risk scoring
risk_weights ==
    [f \in FactorNames |->
        CASE f = "click_rate" -> 35
          [] f = "report_rate" -> -25
          [] f = "training_completion" -> -20
          [] f = "recent_incidents" -> 15
          [] f = "time_to_report" -> 10
          [] f = "repeat_offender" -> 5]

risk_thresholds ==
    [l \in {"low", "medium", "high", "critical"} |->
        CASE l = "low" -> 25
          [] l = "medium" -> 50
          [] l = "high" -> 75
          [] l = "critical" -> 90]

\* The event table of one user as the event store's query returns it: the
\* count of each event type (0: the query returns no row for the type).
NoEvents == [t \in EventTypes |-> 0]

Careful == [NoEvents EXCEPT !["email_sent"] = 2, !["email_clicked"] = 1,
                            !["email_reported"] = 1,
                            !["training_started"] = 2]

Heavy == [Careful EXCEPT !["email_sent"] = 5, !["email_clicked"] = 60,
                         !["sms_clicked"] = 20,
                         !["landing_form_submitted"] = 20,
                         !["email_reported"] = 2]

Worst == [NoEvents EXCEPT !["sms_sent"] = 1, !["sms_clicked"] = 200]

Profiles == {NoEvents, Careful, Heavy, Worst}

\* Events were added: no count is lower, one is higher.
Grown(rows, p) == p # rows /\ \A t \in EventTypes : p[t] >= rows[t]

\* A count that is one for an event type without a row.
count_or_one(metrics, t) == IF metrics.rows[t] = 0 THEN 1 ELSE metrics.rows[t]

count(metrics, t) == metrics.rows[t]

\* A time to report at the top of the scale.
calculate_time_to_report_slowest == 2 * TimeToReportDefault

calculate_time_to_report == TimeToReportDefault

\* The summed counts of the event types in `types`.
RECURSIVE SumCounts(_, _)
SumCounts(metrics, types) ==
    IF types = {} THEN 0
    ELSE LET t == CHOOSE x \in types : TRUE
         IN  count(metrics, t) + SumCounts(metrics, types \ {t})

calculate_repeat_offender_score(metrics) ==
    LET present == {t \in IncidentTypes : count(metrics, t) > 0}
        total_incidents == SumCounts(metrics, present)
    IN  IF total_incidents >= 5 THEN 100
        ELSE IF total_incidents >= 3 THEN 75
        ELSE IF total_incidents >= 1 THEN 50
        ELSE 0

\* A recency test that leaves out the cutoff day itself.
IsRecentStrictly(last_event, recent_cutoff) == last_event > recent_cutoff

\* last_event >= recent_cutoff
IsRecent(last_event, recent_cutoff) == last_event >= recent_cutoff

\* metrics: [rows, last]; rows[t] the count, last the last_event of the rows.
\* clock: datetime.utcnow() when the factors are computed.
calculate_risk_factors(metrics, clock) ==
    LET total_sent == count(metrics, "email_sent") + count(metrics, "sms_sent")
        total_clicked == count(metrics, "email_clicked") + count(metrics, "sms_clicked")
        total_reported == count(metrics, "email_reported") + count(metrics, "sms_reported")
        training_started == count(metrics, "training_started")
        training_completed == count(metrics, "training_completed")
        recent_cutoff == clock - RecentDays
        recent == {t \in IncidentTypes :
                      count(metrics, t) > 0 /\ IsRecent(metrics.last, recent_cutoff)}
    IN  [f \in FactorNames |->
            CASE f = "click_rate" ->
                    IF total_sent > 0 THEN (total_clicked * 100) \div total_sent ELSE 0
              [] f = "report_rate" ->
                    IF total_sent > 0 THEN (total_reported * 100) \div total_sent ELSE 0
              [] f = "training_completion" ->
                    IF training_started > 0
                    THEN (training_completed * 100) \div training_started ELSE 0
              [] f = "recent_incidents" -> SumCounts(metrics, recent)
              [] f = "time_to_report" -> calculate_time_to_report
              [] f = "repeat_offender" -> calculate_repeat_offender_score(metrics)]

\* A weighted sum of the values as they come.
RECURSIVE WeightedSumUnclamped(_, _)
WeightedSumUnclamped(factors, names) ==
    IF names = {} THEN 0
    ELSE LET f == CHOOSE x \in names : TRUE
             weight == IF f \in DOMAIN risk_weights THEN risk_weights[f] ELSE 0
         IN  factors[f] * weight + WeightedSumUnclamped(factors, names \ {f})

RECURSIVE WeightedSum(_, _)
WeightedSum(factors, names) ==
    IF names = {} THEN 0
    ELSE LET f == CHOOSE x \in names : TRUE
             weight == IF f \in DOMAIN risk_weights THEN risk_weights[f] ELSE 0
             normalized_value == Min(Max(factors[f], 0), 100)
         IN  normalized_value * weight + WeightedSum(factors, names \ {f})

\* A score that is the weighted sum itself.
calculate_weighted_risk_score_unbounded(factors) == WeightedSum(factors, DOMAIN factors)

\* The score of a factor map, in hundredths of a point.
calculate_weighted_risk_score(factors) ==
    Min(Max(WeightedSum(factors, DOMAIN factors), 0), 100 * Unit)

\* A level table that takes each band's threshold from the band below.
determine_risk_level_shifted(score) ==
    IF score >= risk_thresholds["high"] * Unit THEN "critical"
    ELSE IF score >= risk_thresholds["medium"] * Unit THEN "high"
    ELSE IF score >= risk_thresholds["low"] * Unit THEN "medium"
    ELSE "low"

\* A level table whose medium band starts above its threshold.
determine_risk_level_above(score) ==
    IF score >= risk_thresholds["critical"] * Unit THEN "critical"
    ELSE IF score >= risk_thresholds["high"] * Unit THEN "high"
    ELSE IF score > risk_thresholds["medium"] * Unit THEN "medium"
    ELSE "low"

\* A level table read from its lowest band up.
determine_risk_level_lowest_first(score) ==
    IF score < risk_thresholds["medium"] * Unit THEN "low"
    ELSE IF score >= risk_thresholds["medium"] * Unit THEN "medium"
    ELSE IF score >= risk_thresholds["high"] * Unit THEN "high"
    ELSE "critical"

determine_risk_level(score) ==
    IF score >= risk_thresholds["critical"] * Unit THEN "critical"
    ELSE IF score >= risk_thresholds["high"] * Unit THEN "high"
    ELSE IF score >= risk_thresholds["medium"] * Unit THEN "medium"
    ELSE "low"

\* A RiskScore whose score carries the time of the calculation.
NewRiskScoreAged(user_id, org_id, metrics, clock) ==
    LET risk_factors == calculate_risk_factors(metrics, clock)
        overall_score == Min(calculate_weighted_risk_score(risk_factors) + clock,
                             100 * Unit)
    IN  [user_id |-> user_id,
         org_id |-> org_id,
         overall_score |-> overall_score,
         click_rate |-> risk_factors["click_rate"],
         report_rate |-> risk_factors["report_rate"],
         training_completion_rate |-> risk_factors["training_completion"],
         recent_incidents |-> risk_factors["recent_incidents"],
         risk_level |-> determine_risk_level(overall_score),
         last_updated |-> clock,
         factors |-> risk_factors]

\* RiskScore built by calculate_user_risk from the fetched metrics.
NewRiskScore(user_id, org_id, metrics, clock) ==
    LET risk_factors == calculate_risk_factors(metrics, clock)
        overall_score == calculate_weighted_risk_score(risk_factors)
    IN  [user_id |-> user_id,
         org_id |-> org_id,
         overall_score |-> overall_score,
         click_rate |-> risk_factors["click_rate"],
         report_rate |-> risk_factors["report_rate"],
         training_completion_rate |-> risk_factors["training_completion"],
         recent_incidents |-> risk_factors["recent_incidents"],
         risk_level |-> determine_risk_level(overall_score),
         last_updated |-> clock,
         factors |-> risk_factors]

\* ------------------------------------------------------------ cohort maths
RECURSIVE SumSeq(_)
SumSeq(s) == IF s = << >> THEN 0 ELSE Head(s) + SumSeq(Tail(s))

\* statistics.mean of the scores, in 1/AvgUnit hundredths of a point.
Mean(scores) == (SumSeq(scores) * AvgUnit) \div Len(scores)

\* A count of the scores above the high threshold.
CountAboveHighRisk(scores) ==
    Cardinality({i \in 1..Len(scores) : scores[i] > risk_thresholds["high"] * Unit})

CountHighRisk(scores) ==
    Cardinality({i \in 1..Len(scores) : scores[i] >= risk_thresholds["high"] * Unit})

\* One point, in the unit of averages.
AvgPoint == Unit * AvgUnit

\* redis.lrange(key, 0, 4) of the list `stored`.
Lrange(stored) == SubSeq(stored, 1, Min(Len(stored), HistoryLast + 1))

\* A baseline taken third from last in the history read.
TrendBaselineOfHistory(history, current_avg) ==
    IF Len(history) >= 3 THEN history[Len(history) - 2] ELSE history[1]

\* scores[-3], scores being the history with the current average appended.
TrendBaseline(history, current_avg) ==
    LET scores == Append(history, current_avg)
    IN  scores[Len(scores) - 2]

\* A classification that counts a change of exactly TrendDelta points.
TrendOfDifferenceInclusive(recent_trend) ==
    IF recent_trend <= -(TrendDelta * AvgPoint) THEN "improving"
    ELSE IF recent_trend >= TrendDelta * AvgPoint THEN "declining"
    ELSE "stable"

TrendOfDifference(recent_trend) ==
    IF recent_trend < -(TrendDelta * AvgPoint) THEN "improving"
    ELSE IF recent_trend > TrendDelta * AvgPoint THEN "declining"
    ELSE "stable"

\* history: what lrange returned; current_avg: the average just computed.
calculate_risk_trend(history, current_avg) ==
    IF Len(history) < 2 THEN "stable"
    ELSE TrendOfDifference(current_avg - TrendBaseline(history, current_avg))

generate_cohort_recommendations(avg_risk, high_risk_users, total_users, trend) ==
    (IF total_users > 0 /\ high_risk_users * 100 > 25 * total_users
     THEN <<"Implement organization-wide security awareness campaign">> ELSE << >>)
    \o (IF avg_risk > 60 * AvgPoint
        THEN <<"Increase phishing simulation frequency">> ELSE << >>)
    \o (IF trend = "declining"
        THEN <<"Review and update security training content",
               "Conduct security culture assessment">> ELSE << >>)
    \o (IF high_risk_users > 10
        THEN <<"Create targeted training program for high-risk users">> ELSE << >>)

\* -------------------------------------------------------- adaptive actions
CriticalActions == <<"immediate_additional_training", "manager_notification",
                     "enhanced_monitoring", "mandatory_security_briefing">>
HighActions == <<"additional_training", "increased_simulation_frequency",
                 "coaching_session">>

\* The action list _trigger_adaptive_actions walks for a risk level.
AdaptiveActions(risk_level) ==
    IF risk_level = "critical" THEN CriticalActions
    ELSE IF risk_level = "high" THEN HighActions
    ELSE << >>

\* What _execute_adaptive_action does for an action: the external operation it
\* awaits ("" when the action matches no branch and only the log line runs).
ActionEmission(action) ==
    CASE action = "immediate_additional_training" -> "publish coach.send"
      [] action = "manager_notification" -> "publish notifications.manager"
      [] action = "enhanced_monitoring" -> "redis.setex enhanced_monitoring"
      [] OTHER -> ""

\* ------------------------------------------------------------------ state
VARIABLES
    now,                  \* the clock, in days
    events,               \* event store: per user, what the 90-day query returns
    user_risk,            \* store keys user_risk:{user_id}: << >> or <<record>>
    org_risk_scores,      \* store sorted sets org_risk_scores:{org_id}: user -> score, -1 absent
    cohort_risk,          \* store keys cohort_risk:{cohort_id}: << >> or <<snapshot>>
    cohort_risk_history,  \* store lists cohort_risk_history:{cohort_id}
    enhanced_monitoring,  \* store keys enhanced_monitoring:{user_id}: the flagged users
    pc,                   \* per worker instance: where its handler stands
    req,                  \* per worker: the request being (or last) handled
    idx,                  \* per worker: position in user_ids of a cohort request
    user_metrics,         \* per worker: the metrics _get_user_metrics returned
    risk_score,           \* per worker: the RiskScore of the user calculation
    user_risk_scores,     \* per worker: scores collected by a cohort request
    cohort,               \* per worker: average, high_risk_users, trend of a cohort request
    actions,              \* per worker: adaptive actions still to execute
    executed,             \* per worker: adaptive actions whose execution was logged
    targets,              \* per worker: high-risk users found by a campaign trigger, its target_users
    trace,                \* per worker: external operations of the current request
    resp,                 \* per worker: << >> or <<the response sent to msg.reply>>
    processed_count,
    error_count,
    observed,             \* per worker: event rows and stored record at fetch time
    written,              \* per user: who wrote the record last, the RiskScore and its inputs
    is_running,           \* RiskWorker.is_running of the handler's instance
    loop,                 \* per periodic task: where periodic_risk_calculation stands
    loop_wait,            \* per periodic task: seconds of the sleep it is in (0: none)
    loop_failures         \* failed cycles of the periodic tasks so far

store_vars == <<user_risk, org_risk_scores, cohort_risk, cohort_risk_history,
                enhanced_monitoring>>
local_vars == <<pc, req, idx, user_metrics, risk_score, user_risk_scores, cohort,
                actions, executed, targets, trace, resp, processed_count,
                error_count, observed>>
loop_vars == <<is_running, loop, loop_wait, loop_failures>>
vars == <<now, events, store_vars, local_vars, written, loop_vars>>

\* ---------------------------------------------------------------- requests
RequestTypes == {"calculate_user_risk", "calculate_cohort_risk",
                 "get_risk_recommendations", "trigger_adaptive_campaign"}

RECURSIVE SeqsUpTo(_, _)
SeqsUpTo(S, n) ==
    IF n = 0 THEN {<< >>}
    ELSE LET shorter == SeqsUpTo(S, n - 1)
         IN  shorter \cup {Append(q, x) : q \in {t \in shorter : Len(t) = n - 1}, x \in S}

\* The member lists of a cohort: each member once, in any order.
UserLists ==
    {l \in SeqsUpTo(Users, MaxCohortSize) :
        \A i, j \in 1..Len(l) : l[i] = l[j] => i = j}

Request(type, user_id, org_id, cohort_id, user_ids, reply) ==
    [type |-> type, user_id |-> user_id, org_id |-> org_id,
     cohort_id |-> cohort_id, user_ids |-> user_ids, reply |-> reply]

\* The payloads the model sends on risk.update; a field a type does not read
\* is left out (None).  "resync" stands for any unknown type, None for a
\* payload without a type.  Complete requests come with a reply address, and
\* one of each kind without; each kind also comes with an identifier missing.
UserRequests ==
    {Request("calculate_user_risk", u, o, None, << >>, TRUE) : u \in Users, o \in Orgs}
    \cup {Request("calculate_user_risk", Subject, o, None, << >>, FALSE) : o \in Orgs}
    \cup {Request("calculate_user_risk", None, o, None, << >>, TRUE) : o \in Orgs}
    \cup {Request("calculate_user_risk", Subject, None, None, << >>, TRUE)}

CohortRequests ==
    {Request("calculate_cohort_risk", None, o, c, l, TRUE) :
        o \in Orgs, c \in Cohorts, l \in UserLists}
    \cup {Request("calculate_cohort_risk", None, o, c, <<Subject>>, FALSE) :
        o \in Orgs, c \in Cohorts}
    \cup {Request("calculate_cohort_risk", None, o, None, <<Subject>>, TRUE) : o \in Orgs}
    \cup {Request("calculate_cohort_risk", None, None, c, <<Subject>>, TRUE) : c \in Cohorts}

RecommendationRequests ==
    {Request("get_risk_recommendations", None, o, c, << >>, TRUE) :
        o \in Orgs, c \in Cohorts}
    \cup {Request("get_risk_recommendations", None, o, None, << >>, TRUE) : o \in Orgs}
    \cup {Request("get_risk_recommendations", None, None, c, << >>, TRUE) : c \in Cohorts}

CampaignRequests ==
    {Request("trigger_adaptive_campaign", None, o, None, << >>, TRUE) :
        o \in Orgs \cup {None}}

OtherRequests ==
    {Request(t, None, None, None, << >>, r) : t \in {"resync", None}, r \in BOOLEAN}

Requests ==
    UserRequests \cup CohortRequests \cup RecommendationRequests
    \cup CampaignRequests \cup OtherRequests

NoRequest == Request(None, None, None, None, << >>, FALSE)

NoMetrics == [rows |-> NoEvents, last |-> 0]
NoRiskScore == NewRiskScore(None, None, NoMetrics, 0)
NoCohort == [average_risk |-> 0, high_risk_users |-> 0, risk_trend |-> "stable"]
NoObserved == [rows |-> NoEvents, stored |-> << >>]

\* A response: `success`, whether it has an `error` key, its text, and the
\* risk_score and risk_level of a user result (-1 and "" in any other).
UserResult(score, level) ==
    [success |-> TRUE, has_error |-> FALSE, detail |-> "user risk",
     risk_score |-> score, risk_level |-> level]

Response(success, has_error, detail) ==
    [success |-> success, has_error |-> has_error, detail |-> detail,
     risk_score |-> -1, risk_level |-> ""]

Op(name, ok) == [op |-> name, ok |-> ok]

\* Periodic tasks a worker instance can have created: one per start().
Tasks == 1..MaxStarts

\* __init__: the worker is not running and start() has created no task.
InitLoop ==
    /\ is_running = FALSE
    /\ loop = [t \in Tasks |-> "none"]
    /\ loop_wait = [t \in Tasks |-> 0]
    /\ loop_failures = 0

\* The state after construction, but for the event store and the trend lists.
InitWorker ==
    /\ now = 0
    /\ user_risk = [u \in Users |-> << >>]
    /\ org_risk_scores = [o \in Orgs |-> [u \in Users |-> -1]]
    /\ cohort_risk = [c \in Cohorts |-> << >>]
    /\ enhanced_monitoring = {}
    /\ pc = [w \in Workers |-> "idle"]
    /\ req = [w \in Workers |-> NoRequest]
    /\ idx = [w \in Workers |-> 0]
    /\ user_metrics = [w \in Workers |-> NoMetrics]
    /\ risk_score = [w \in Workers |-> NoRiskScore]
    /\ user_risk_scores = [w \in Workers |-> << >>]
    /\ cohort = [w \in Workers |-> NoCohort]
    /\ actions = [w \in Workers |-> << >>]
    /\ executed = [w \in Workers |-> << >>]
    /\ targets = [w \in Workers |-> {}]
    /\ trace = [w \in Workers |-> << >>]
    /\ resp = [w \in Workers |-> << >>]
    /\ processed_count = [w \in Workers |-> 0]
    /\ error_count = [w \in Workers |-> 0]
    /\ observed = [w \in Workers |-> NoObserved]
    /\ written = [u \in Users |-> << >>]
    /\ InitLoop

\* No key of the store exists before a worker writes it.
NoHistory == cohort_risk_history = [c \in Cohorts |-> << >>]

Init ==
    /\ InitWorker
    /\ NoHistory
    /\ events = [u \in Users |-> [rows |-> NoEvents, last |-> 0]]

\* ------------------------------------------------------- handler control
\* The part of a worker's state that every exit of a step sets: position,
\* cohort loop state, the response and the two counters.
Control(w, p, i, s, c, r, dp, de) ==
    /\ pc' = [pc EXCEPT ![w] = p]
    /\ idx' = [idx EXCEPT ![w] = i]
    /\ user_risk_scores' = [user_risk_scores EXCEPT ![w] = s]
    /\ cohort' = [cohort EXCEPT ![w] = c]
    /\ resp' = [resp EXCEPT ![w] = r]
    /\ processed_count' = [processed_count EXCEPT ![w] = @ + dp]
    /\ error_count' = [error_count EXCEPT ![w] = @ + de]

\* A handler that answers nobody.
RespondNever(r, result) == << >>

\* msg.respond(result) when the message carries a reply address.
Respond(r, result) == IF r.reply THEN <<result>> ELSE << >>

\* handle_risk_request: the handler returned `result` (processed_count += 1).
ReturnResult(w, r, result) ==
    Control(w, "done", 0, << >>, NoCohort, Respond(r, result), 1, 0)

\* An except block that answers the error without counting it.
RaiseErrorUncounted(w, r, msg) ==
    Control(w, "done", 0, << >>, NoCohort, Respond(r, Response(FALSE, TRUE, msg)), 0, 0)

\* handle_risk_request: the except block (error_count += 1, error response).
RaiseError(w, r, msg) ==
    Control(w, "done", 0, << >>, NoCohort, Respond(r, Response(FALSE, TRUE, msg)), 0, 1)

\* A cohort loop that aggregates whatever it collected, nothing included.
CohortAdvanceAnyway(w, r, i, scores) ==
    IF i + 1 <= Len(r.user_ids)
    THEN Control(w, "fetch", i + 1, scores, NoCohort, << >>, 0, 0)
    ELSE Control(w, "trend", i + 1, scores,
                 [average_risk |-> IF scores = << >> THEN 0 ELSE Mean(scores),
                  high_risk_users |-> CountHighRisk(scores),
                  risk_trend |-> "stable"],
                 << >>, 0, 0)

\* calculate_cohort_risk: the loop over user_ids moves past position i with
\* the scores collected so far; after the last user, the aggregate.
CohortAdvance(w, r, i, scores) ==
    IF i + 1 <= Len(r.user_ids)
    THEN Control(w, "fetch", i + 1, scores, NoCohort, << >>, 0, 0)
    ELSE IF scores = << >>
    THEN ReturnResult(w, r, Response(FALSE, TRUE, "No valid user risk scores calculated"))
    ELSE Control(w, "trend", i + 1, scores,
                 [average_risk |-> Mean(scores),
                  high_risk_users |-> CountHighRisk(scores),
                  risk_trend |-> "stable"],
                 << >>, 0, 0)

\* The user whose risk the worker is calculating.
CurrentUser(w) ==
    IF req[w].type = "calculate_user_risk" THEN req[w].user_id
    ELSE req[w].user_ids[idx[w]]

\* calculate_user_risk returned: to the handler, or into the cohort loop.
UserCalcReturns(w) ==
    IF req[w].type = "calculate_user_risk"
    THEN ReturnResult(w, req[w], UserResult(risk_score[w].overall_score,
                                            risk_score[w].risk_level))
    ELSE CohortAdvance(w, req[w], idx[w],
                       Append(user_risk_scores[w], risk_score[w].overall_score))

\* A failure of the calculation that is taken for its result.
UserCalcRaisesUnnoticed(w, msg) == UserCalcReturns(w)

\* A failure of a member's calculation that ends the request.
UserCalcRaisesAborting(w, msg) == RaiseError(w, req[w], msg)

\* calculate_user_risk raised: the handler's except block, or the cohort
\* loop's, which logs and goes on with the next user.
UserCalcRaises(w, msg) ==
    IF req[w].type = "calculate_user_risk"
    THEN RaiseError(w, req[w], msg)
    ELSE CohortAdvance(w, req[w], idx[w], user_risk_scores[w])

\* The locals of calculate_user_risk live while it stores and dispatches.
DropLocals(w) ==
    LET live == pc'[w] \in {"setex", "zadd", "dispatch"}
    IN  /\ user_metrics' = [user_metrics EXCEPT ![w] = IF live THEN @ ELSE NoMetrics]
        /\ risk_score' = [risk_score EXCEPT ![w] = IF live THEN @ ELSE NoRiskScore]
        /\ observed' = [observed EXCEPT ![w] = IF live THEN @ ELSE NoObserved]

Goto(w, p) ==
    Control(w, p, idx[w], user_risk_scores[w], cohort[w], resp[w], 0, 0)

Traced(w, name, ok) == trace' = [trace EXCEPT ![w] = Append(@, Op(name, ok))]

\* ------------------------------------------------------------ environment
\* Time passes.
Tick(d) ==
    /\ now + d <= MaxTime
    /\ now' = now + d
    /\ UNCHANGED <<loop_vars, events, store_vars, local_vars, written>>

\* Events of a user are ingested: the event store's answer for the user
\* grows, and the rows' last_event is the present.
EventsChange(u, p) ==
    /\ Grown(events[u].rows, p)
    /\ events' = [events EXCEPT ![u] = [rows |-> p, last |-> now]]
    /\ UNCHANGED <<loop_vars, now, store_vars, local_vars, written>>

\* ---------------------------------------------------------------- handler
\* The requests taken so far: those handled and those in hand.
RECURSIVE SumOver(_, _)
SumOver(f, S) ==
    IF S = {} THEN 0
    ELSE LET x == CHOOSE y \in S : TRUE IN f[x] + SumOver(f, S \ {x})

Taken ==
    SumOver(processed_count, Workers) + SumOver(error_count, Workers)
    + Cardinality({w \in Workers : pc[w] \notin {"idle", "done"}})

\* A worker instance takes request r from risk.update: handle_risk_request up
\* to its first external operation.
Receive(w, r) ==
    /\ pc[w] \in {"idle", "done"}
    /\ Taken < MaxRequests
    /\ req' = [req EXCEPT ![w] = r]
    /\ trace' = [trace EXCEPT ![w] = << >>]
    /\ user_metrics' = [user_metrics EXCEPT ![w] = NoMetrics]
    /\ risk_score' = [risk_score EXCEPT ![w] = NoRiskScore]
    /\ actions' = [actions EXCEPT ![w] = << >>]
    /\ executed' = [executed EXCEPT ![w] = << >>]
    /\ targets' = [targets EXCEPT ![w] = {}]
    /\ observed' = [observed EXCEPT ![w] = NoObserved]
    /\ CASE r.type = "calculate_user_risk" ->
                IF r.user_id = None \/ r.org_id = None
                THEN RaiseError(w, r, "user_id and org_id are required")
                ELSE Control(w, "fetch", 0, << >>, NoCohort, << >>, 0, 0)
         [] r.type = "calculate_cohort_risk" ->
                IF r.cohort_id = None \/ r.org_id = None
                THEN RaiseError(w, r, "cohort_id and org_id are required")
                ELSE CohortAdvance(w, r, 0, << >>)
         [] r.type = "get_risk_recommendations" ->
                Control(w, "reco_get", 0, << >>, NoCohort, << >>, 0, 0)
         [] r.type = "trigger_adaptive_campaign" ->
                Control(w, "campaign_query", 0, << >>, NoCohort, << >>, 0, 0)
         [] OTHER ->
                RaiseError(w, r, "Unknown risk request type")
    /\ UNCHANGED <<loop_vars, now, events, store_vars, written>>

\* _get_user_metrics and the scoring that follows it without suspension:
\* the event store query (ok) or its failure (an empty metrics map).
Fetch(w) ==
    /\ pc[w] = "fetch"
    /\ \E ok \in BOOLEAN :
        LET u == CurrentUser(w)
            metrics == IF ok THEN events[u] ELSE NoMetrics
        IN  /\ user_metrics' = [user_metrics EXCEPT ![w] = metrics]
            /\ risk_score' = [risk_score EXCEPT ![w] =
                                NewRiskScore(u, req[w].org_id, metrics, now)]
            /\ observed' = [observed EXCEPT ![w] =
                                [rows |-> events[u].rows, stored |-> user_risk[u]]]
            /\ Traced(w, "clickhouse.execute", ok)
    /\ Goto(w, "setex")
    /\ UNCHANGED <<loop_vars, now, events, store_vars, written, req, actions, executed, targets>>

\* A write that keeps the level of the record it finds.
StoreUserRiskKeepingLevel(store, record) ==
    [store EXCEPT ![record.user_id] =
        IF store[record.user_id] = << >> THEN <<record>>
        ELSE <<[record EXCEPT !.risk_level = store[record.user_id][1].risk_level]>>]

\* redis.setex("user_risk:{user_id}", ttl, record)
StoreUserRisk(store, record) == [store EXCEPT ![record.user_id] = <<record>>]

\* redis.zadd("org_risk_scores:{org_id}", {user_id: overall_score})
StoreOrgScore(zsets, record) ==
    [zsets EXCEPT ![record.org_id][record.user_id] = record.overall_score]

\* _store_user_risk_score, first write: the user's score record.
Setex(w) ==
    /\ pc[w] = "setex"
    /\ \E ok \in BOOLEAN :
        /\ Traced(w, "redis.setex user_risk", ok)
        /\ IF ok
           THEN /\ user_risk' = StoreUserRisk(user_risk, risk_score[w])
                /\ written' = [written EXCEPT ![risk_score[w].user_id] =
                                 <<[by |-> w,
                                    record |-> risk_score[w],
                                    metrics |-> user_metrics[w],
                                    rows |-> observed[w].rows]>>]
                /\ Goto(w, "zadd")
           ELSE /\ UNCHANGED <<user_risk, written>>
                /\ UserCalcRaises(w, "store write failed")
    /\ DropLocals(w)
    /\ UNCHANGED <<loop_vars, now, events, org_risk_scores, cohort_risk, cohort_risk_history,
                   enhanced_monitoring, req, actions, executed, targets>>

\* _store_user_risk_score, second write: the organization's ranked set; then
\* calculate_user_risk's check for adaptive actions.
Zadd(w) ==
    /\ pc[w] = "zadd"
    /\ \E ok \in BOOLEAN :
        /\ Traced(w, "redis.zadd org_risk_scores", ok)
        /\ IF ok
           THEN /\ org_risk_scores' = StoreOrgScore(org_risk_scores, risk_score[w])
                /\ IF risk_score[w].risk_level \in {"high", "critical"}
                   THEN /\ actions' = [actions EXCEPT ![w] =
                                         AdaptiveActions(risk_score[w].risk_level)]
                        /\ Goto(w, "dispatch")
                   ELSE /\ UNCHANGED actions
                        /\ UserCalcReturns(w)
           ELSE /\ UNCHANGED <<org_risk_scores, actions>>
                /\ UserCalcRaises(w, "store write failed")
    /\ DropLocals(w)
    /\ UNCHANGED <<loop_vars, now, events, user_risk, cohort_risk, cohort_risk_history,
                   enhanced_monitoring, written, req, executed, targets>>

\* One turn of the loop of _trigger_adaptive_actions: _execute_adaptive_action
\* on the next action of the list.
ExecuteAdaptiveAction(w) ==
    /\ pc[w] = "dispatch"
    /\ actions[w] # << >>
    /\ LET action == Head(actions[w])
           emission == ActionEmission(action)
           logged == /\ executed' = [executed EXCEPT ![w] = Append(@, action)]
                     /\ actions' = [actions EXCEPT ![w] = Tail(@)]
                     /\ IF Tail(actions[w]) = << >>
                        THEN UserCalcReturns(w)
                        ELSE Goto(w, "dispatch")
       IN  IF emission = ""
           THEN /\ logged
                /\ UNCHANGED <<trace, enhanced_monitoring>>
           ELSE \E ok \in BOOLEAN :
                /\ Traced(w, emission, ok)
                /\ IF ok
                   THEN /\ logged
                        /\ enhanced_monitoring' =
                              IF action = "enhanced_monitoring"
                              THEN enhanced_monitoring \cup {risk_score[w].user_id}
                              ELSE enhanced_monitoring
                   ELSE /\ UNCHANGED <<executed, enhanced_monitoring>>
                        /\ actions' = [actions EXCEPT ![w] = << >>]
                        /\ UserCalcRaises(w, "adaptive action failed")
    /\ DropLocals(w)
    /\ UNCHANGED <<loop_vars, now, events, user_risk, org_risk_scores, cohort_risk,
                   cohort_risk_history, written, req, targets>>

\* _calculate_risk_trend: the history read and the trend of the average.
Trend(w) ==
    /\ pc[w] = "trend"
    /\ \E ok \in BOOLEAN :
        /\ Traced(w, "redis.lrange cohort_risk_history", ok)
        /\ IF ok
           THEN LET history == Lrange(cohort_risk_history[req[w].cohort_id])
                    trend == calculate_risk_trend(history, cohort[w].average_risk)
                IN  Control(w, "cohort_store", idx[w], user_risk_scores[w],
                            [cohort[w] EXCEPT !.risk_trend = trend], << >>, 0, 0)
           ELSE RaiseError(w, req[w], "store read failed")
    /\ UNCHANGED <<loop_vars, now, events, store_vars, written, req, user_metrics, risk_score,
                   actions, executed, targets, observed>>

\* A CohortRisk whose total_users counts each requested user once.
CohortSnapshotOfDistinct(r, c, clock) ==
    LET distinct == Cardinality({r.user_ids[i] : i \in DOMAIN r.user_ids})
    IN  [cohort_id |-> r.cohort_id,
         org_id |-> r.org_id,
         average_risk_score |-> c.average_risk,
         high_risk_users |-> c.high_risk_users,
         total_users |-> distinct,
         risk_trend |-> c.risk_trend,
         recommended_actions |->
            generate_cohort_recommendations(c.average_risk, c.high_risk_users,
                                            distinct, c.risk_trend),
         last_updated |-> clock]

\* The CohortRisk calculate_cohort_risk builds, as _store_cohort_risk writes it.
CohortSnapshot(r, c, clock) ==
    [cohort_id |-> r.cohort_id,
     org_id |-> r.org_id,
     average_risk_score |-> c.average_risk,
     high_risk_users |-> c.high_risk_users,
     total_users |-> Len(r.user_ids),
     risk_trend |-> c.risk_trend,
     recommended_actions |->
        generate_cohort_recommendations(c.average_risk, c.high_risk_users,
                                        Len(r.user_ids), c.risk_trend),
     last_updated |-> clock]

\* The successful result of calculate_cohort_risk.
CohortResult(snapshot) ==
    [success |-> TRUE, has_error |-> FALSE, detail |-> "cohort risk",
     risk_score |-> -1, risk_level |-> "",
     average_risk_score |-> snapshot.average_risk_score,
     high_risk_users |-> snapshot.high_risk_users,
     total_users |-> snapshot.total_users,
     risk_trend |-> snapshot.risk_trend,
     recommendations |-> snapshot.recommended_actions]

\* _store_cohort_risk and the result of calculate_cohort_risk.
CohortStore(w) ==
    /\ pc[w] = "cohort_store"
    /\ \E ok \in BOOLEAN :
        /\ Traced(w, "redis.setex cohort_risk", ok)
        /\ IF ok
           THEN /\ cohort_risk' = [cohort_risk EXCEPT ![req[w].cohort_id] =
                                     <<CohortSnapshot(req[w], cohort[w], now)>>]
                /\ ReturnResult(w, req[w], CohortResult(CohortSnapshot(req[w], cohort[w], now)))
           ELSE /\ UNCHANGED cohort_risk
                /\ RaiseError(w, req[w], "store write failed")
    /\ UNCHANGED <<loop_vars, now, events, user_risk, org_risk_scores, cohort_risk_history,
                   enhanced_monitoring, written, req, user_metrics, risk_score,
                   actions, executed, targets, observed>>

\* redis.get("cohort_risk:{cohort_id}")
GetCohortRisk(cohort_id) ==
    IF cohort_id \in DOMAIN cohort_risk THEN cohort_risk[cohort_id] ELSE << >>

recommend_campaign_frequency(snapshot) ==
    LET avg_risk == snapshot.average_risk_score
    IN  IF avg_risk >= 70 * AvgPoint THEN "weekly"
        ELSE IF avg_risk >= 50 * AvgPoint THEN "bi-weekly"
        ELSE IF avg_risk >= 30 * AvgPoint THEN "monthly"
        ELSE "quarterly"

recommend_difficulty_level(snapshot) ==
    LET avg_risk == snapshot.average_risk_score
    IN  IF avg_risk >= 60 * AvgPoint THEN "beginner"
        ELSE IF avg_risk >= 40 * AvgPoint THEN "intermediate"
        ELSE "advanced"

\* A selection whose limits of 30% and 10% count as exceeded when met.
recommend_target_users_inclusive(snapshot) ==
    LET high_risk_users == snapshot.high_risk_users
        total_users == snapshot.total_users
    IN  IF high_risk_users * 10 >= total_users * 3 THEN <<"high_risk_users_only">>
        ELSE IF high_risk_users * 10 >= total_users THEN <<"high_risk_users", "random_sample">>
        ELSE <<"all_users">>

\* high_risk_users > total_users * 0.3, and * 0.1, in tenths.
recommend_target_users(snapshot) ==
    LET high_risk_users == snapshot.high_risk_users
        total_users == snapshot.total_users
    IN  IF high_risk_users * 10 > total_users * 3 THEN <<"high_risk_users_only">>
        ELSE IF high_risk_users * 10 > total_users THEN <<"high_risk_users", "random_sample">>
        ELSE <<"all_users">>

\* The recommended actions whose text contains "training"; none of them
\* contains "phishing" or "reporting".
TrainingActions == {"Review and update security training content",
                    "Create targeted training program for high-risk users"}

RECURSIVE FocusAreas(_)
FocusAreas(recommendations) ==
    IF recommendations = << >> THEN << >>
    ELSE (IF Head(recommendations) \in TrainingActions
          THEN <<"general_security_awareness">> ELSE << >>)
         \o FocusAreas(Tail(recommendations))

recommend_training_focus(snapshot) ==
    LET focus_areas == FocusAreas(snapshot.recommended_actions)
    IN  IF focus_areas # << >> THEN focus_areas ELSE <<"general_security_awareness">>

\* The successful result of get_risk_recommendations.
RecommendationResult(snapshot) ==
    [success |-> TRUE, has_error |-> FALSE, detail |-> "recommendations",
     risk_score |-> -1, risk_level |-> "",
     recommendations |->
        [campaign_frequency |-> recommend_campaign_frequency(snapshot),
         difficulty_level |-> recommend_difficulty_level(snapshot),
         target_users |-> recommend_target_users(snapshot),
         training_focus |-> recommend_training_focus(snapshot)],
     cohort_risk_summary |-> snapshot]

\* get_risk_recommendations
RecoGet(w) ==
    /\ pc[w] = "reco_get"
    /\ \E ok \in BOOLEAN :
        /\ Traced(w, "redis.get cohort_risk", ok)
        /\ IF ~ok
           THEN RaiseError(w, req[w], "store read failed")
           ELSE IF GetCohortRisk(req[w].cohort_id) = << >>
           THEN ReturnResult(w, req[w], Response(FALSE, TRUE, "Cohort risk data not found"))
           ELSE ReturnResult(w, req[w],
                             RecommendationResult(GetCohortRisk(req[w].cohort_id)[1]))
    /\ UNCHANGED <<loop_vars, now, events, store_vars, written, req, user_metrics, risk_score,
                   actions, executed, targets, observed>>

\* A range read that leaves out the members on its lower end.
HighRiskUsersAbove(org_id) ==
    IF org_id \in DOMAIN org_risk_scores
    THEN {u \in Users : /\ org_risk_scores[org_id][u] > HighRiskMin * Unit
                        /\ org_risk_scores[org_id][u] <= HighRiskMax * Unit}
    ELSE {}

\* redis.zrevrangebyscore("org_risk_scores:{org_id}", 100, 75)
HighRiskUsers(org_id) ==
    IF org_id \in DOMAIN org_risk_scores
    THEN {u \in Users : /\ org_risk_scores[org_id][u] >= HighRiskMin * Unit
                        /\ org_risk_scores[org_id][u] <= HighRiskMax * Unit}
    ELSE {}

\* trigger_adaptive_campaign up to the publish.
CampaignQuery(w) ==
    /\ pc[w] = "campaign_query"
    /\ \E ok \in BOOLEAN :
        /\ Traced(w, "redis.zrevrangebyscore org_risk_scores", ok)
        /\ IF ~ok
           THEN /\ UNCHANGED targets
                /\ RaiseError(w, req[w], "store read failed")
           ELSE IF HighRiskUsers(req[w].org_id) = {}
           THEN /\ UNCHANGED targets
                /\ ReturnResult(w, req[w], Response(FALSE, FALSE, "No high-risk users found"))
           ELSE /\ targets' = [targets EXCEPT ![w] = HighRiskUsers(req[w].org_id)]
                /\ Goto(w, "campaign_publish")
    /\ UNCHANGED <<loop_vars, now, events, store_vars, written, req, user_metrics, risk_score,
                   actions, executed, observed>>

\* trigger_adaptive_campaign: the publish to campaign.schedule of the campaign
\* for the target users found, and the result.
CampaignPublish(w) ==
    /\ pc[w] = "campaign_publish"
    /\ \E ok \in BOOLEAN :
        /\ Traced(w, "publish campaign.schedule", ok)
        /\ IF ok
           THEN ReturnResult(w, req[w], Response(TRUE, FALSE, "Adaptive campaign triggered"))
           ELSE RaiseError(w, req[w], "publish failed")
    /\ UNCHANGED <<loop_vars, now, events, store_vars, written, req, user_metrics, risk_score,
                   actions, executed, targets, observed>>

\* ----------------------------------------------------------- specification
\* Requests that recalculate the subject's risk.
RecalcRequests ==
    {r \in Requests : r.type = "calculate_user_risk" /\ r.user_id = Subject
                      /\ r.org_id # None /\ r.reply}

\* The worker instances recalculating one user concurrently, on one store,
\* while the user's events grow and time passes.
Next ==
    \/ \E d \in {RecentDays, RecentDays + 1} : Tick(d)
    \/ \E p \in Profiles : EventsChange(Subject, p)
    \/ \E w \in Workers, r \in RecalcRequests : Receive(w, r)
    \/ \E w \in Workers : Fetch(w)
    \/ \E w \in Workers : Setex(w)
    \/ \E w \in Workers : Zadd(w)

Spec == Init /\ [][Next]_vars

\* One worker instance handling every kind of request, one after the other.
\* With the source's weights no score reaches the high threshold, so the steps
\* that need one (ExecuteAdaptiveAction, CampaignPublish) are never enabled
\* with the source's scorer; they are part of SpecDispatch.
Handler == "w1"

\* The event store when the handler starts: one user of each kind.
InitHandler ==
    /\ InitWorker
    /\ NoHistory
    /\ events = [u \in Users |->
                    [rows |-> IF u = Subject THEN Heavy ELSE Careful, last |-> 0]]

NextHandler ==
    \/ \E r \in Requests : Receive(Handler, r)
    \/ Fetch(Handler)
    \/ Setex(Handler)
    \/ Zadd(Handler)
    \/ Trend(Handler)
    \/ CohortStore(Handler)
    \/ RecoGet(Handler)
    \/ CampaignQuery(Handler)

SpecHandler == InitHandler /\ [][NextHandler]_vars

\* ------------------------------------------------------- adaptive dispatch
\* With the source's weights the weighted score is at most 60 points, below
\* the high threshold, so handle_risk_request never reaches the dispatcher.
\* Here calculate_user_risk runs from the construction of the RiskScore on,
\* the scorer's result being an input.
TestScores == {40 * Unit, 75 * Unit, 90 * Unit}

DispatchRequests ==
    {r \in Requests : r.type = "calculate_user_risk" /\ r.user_id # None
                      /\ r.org_id # None /\ r.reply}

\* calculate_user_risk: the RiskScore for an overall score `score`, after a
\* successful metrics query.
ScoreGiven(w, r, score) ==
    /\ pc[w] \in {"idle", "done"}
    /\ Taken < MaxRequests
    /\ req' = [req EXCEPT ![w] = r]
    /\ trace' = [trace EXCEPT ![w] = <<Op("clickhouse.execute", TRUE)>>]
    /\ user_metrics' = [user_metrics EXCEPT ![w] = events[r.user_id]]
    /\ risk_score' = [risk_score EXCEPT ![w] =
            [NewRiskScore(r.user_id, r.org_id, events[r.user_id], now)
                EXCEPT !.overall_score = score,
                       !.risk_level = determine_risk_level(score)]]
    /\ observed' = [observed EXCEPT ![w] =
            [rows |-> events[r.user_id].rows, stored |-> user_risk[r.user_id]]]
    /\ actions' = [actions EXCEPT ![w] = << >>]
    /\ executed' = [executed EXCEPT ![w] = << >>]
    /\ targets' = [targets EXCEPT ![w] = {}]
    /\ Control(w, "setex", 0, << >>, NoCohort, << >>, 0, 0)
    /\ UNCHANGED <<loop_vars, now, events, store_vars, written>>

NextDispatch ==
    \/ \E r \in DispatchRequests, score \in TestScores : ScoreGiven(Handler, r, score)
    \/ \E r \in CampaignRequests : Receive(Handler, r)
    \/ Setex(Handler)
    \/ Zadd(Handler)
    \/ ExecuteAdaptiveAction(Handler)
    \/ CampaignQuery(Handler)
    \/ CampaignPublish(Handler)

SpecDispatch == InitHandler /\ [][NextDispatch]_vars

\* The handler on every kind of request, the scorer's result computed or given.
NextService == NextHandler \/ NextDispatch

SpecService == InitHandler /\ [][NextService]_vars

\* --------------------------------------------------------- trend function
\* _calculate_risk_trend on any list the store may hold under the history key
\* and any current average: a cohort request of one member stands before the
\* trend calculation, its member's score being the average.
TrendHistoryValues == {44 * AvgPoint, 45 * AvgPoint, 55 * AvgPoint, 56 * AvgPoint}
TrendScores == {50 * Unit}

TrendRequest == Request("calculate_cohort_risk", None, "o1", "c1", <<Subject>>, TRUE)

InitTrend ==
    /\ now = 0
    /\ events = [u \in Users |-> [rows |-> NoEvents, last |-> 0]]
    /\ user_risk = [u \in Users |-> << >>]
    /\ org_risk_scores = [o \in Orgs |-> [u \in Users |-> -1]]
    /\ cohort_risk = [c \in Cohorts |-> << >>]
    /\ \E h \in SeqsUpTo(TrendHistoryValues, MaxHistoryLen) :
            cohort_risk_history = [c \in Cohorts |-> h]
    /\ enhanced_monitoring = {}
    /\ pc = [w \in Workers |-> IF w = Handler THEN "trend" ELSE "idle"]
    /\ req = [w \in Workers |-> IF w = Handler THEN TrendRequest ELSE NoRequest]
    /\ idx = [w \in Workers |-> IF w = Handler THEN 2 ELSE 0]
    /\ user_metrics = [w \in Workers |-> NoMetrics]
    /\ risk_score = [w \in Workers |-> NoRiskScore]
    /\ \E score \in TrendScores :
          /\ user_risk_scores = [w \in Workers |-> IF w = Handler THEN <<score>> ELSE << >>]
          /\ cohort = [w \in Workers |->
                         IF w = Handler
                         THEN [average_risk |-> Mean(<<score>>),
                               high_risk_users |-> CountHighRisk(<<score>>),
                               risk_trend |-> "stable"]
                         ELSE NoCohort]
    /\ actions = [w \in Workers |-> << >>]
    /\ executed = [w \in Workers |-> << >>]
    /\ targets = [w \in Workers |-> {}]
    /\ trace = [w \in Workers |-> << >>]
    /\ resp = [w \in Workers |-> << >>]
    /\ processed_count = [w \in Workers |-> 0]
    /\ error_count = [w \in Workers |-> 0]
    /\ observed = [w \in Workers |-> NoObserved]
    /\ written = [u \in Users |-> << >>]
    /\ InitLoop

NextTrend ==
    \/ Trend(Handler)
    \/ CohortStore(Handler)

SpecTrend == InitTrend /\ [][NextTrend]_vars

\* ---------------------------------------------------------- periodic loop
\* start(): the worker runs and a new periodic task is created.
Start ==
    /\ \E t \in Tasks :
        /\ loop[t] = "none"
        /\ \A o \in Tasks : o < t => loop[o] # "none"
        /\ loop' = [loop EXCEPT ![t] = "check"]
    /\ is_running' = TRUE
    /\ UNCHANGED <<loop_wait, loop_failures, now, events, store_vars, local_vars, written>>

\* stop()
Stop ==
    /\ is_running
    /\ is_running' = FALSE
    /\ UNCHANGED <<loop, loop_wait, loop_failures, now, events, store_vars,
                   local_vars, written>>

\* A loop that never looks at the flag.
LoopContinuesAlways(running) == TRUE

\* while self.is_running
LoopContinues(running) == running

\* periodic_risk_calculation: the test of the while loop.
LoopCheck(t) ==
    /\ loop[t] = "check"
    /\ loop' = [loop EXCEPT ![t] = IF LoopContinues(is_running) THEN "cycle" ELSE "exited"]
    /\ UNCHANGED <<is_running, loop_wait, loop_failures, now, events, store_vars,
                   local_vars, written>>

\* A loop that a failing cycle ends.
CycleOutcomeFatal(ok) == IF ok THEN "sleep" ELSE "exited"

\* Where a cycle leaves the task: in the hourly sleep of the try block, or in
\* the retry sleep of the except block.
CycleOutcome(ok) == IF ok THEN "sleep" ELSE "backoff"

\* periodic_risk_calculation: the body of one cycle, which completes or raises.
LoopCycle(t) ==
    /\ loop[t] = "cycle"
    /\ \E ok \in BOOLEAN :
        /\ ok \/ loop_failures < MaxFailures
        /\ loop' = [loop EXCEPT ![t] = CycleOutcome(ok)]
        /\ loop_wait' = [loop_wait EXCEPT ![t] = IF ok THEN CycleSeconds ELSE RetrySeconds]
        /\ loop_failures' = IF ok THEN loop_failures ELSE loop_failures + 1
    /\ UNCHANGED <<is_running, now, events, store_vars, local_vars, written>>

\* asyncio.sleep returns.
LoopWake(t) ==
    /\ loop[t] \in {"sleep", "backoff"}
    /\ loop' = [loop EXCEPT ![t] = "check"]
    /\ loop_wait' = [loop_wait EXCEPT ![t] = 0]
    /\ UNCHANGED <<is_running, loop_failures, now, events, store_vars, local_vars, written>>

\* The worker instance started and stopped while its periodic tasks run; the
\* event loop runs every task that is ready and every sleep ends.
NextLoop ==
    \/ Start
    \/ Stop
    \/ \E t \in Tasks : LoopCheck(t)
    \/ \E t \in Tasks : LoopCycle(t)
    \/ \E t \in Tasks : LoopWake(t)

LoopFairness ==
    \A t \in Tasks :
        /\ WF_vars(LoopCheck(t))
        /\ WF_vars(LoopCycle(t))
        /\ WF_vars(LoopWake(t))

SpecLoop == InitHandler /\ [][NextLoop]_vars /\ LoopFairness

\* ------------------------------------------------------------- key expiry
\* The TTL of user_risk:{user_id} runs out and the store deletes the key.
\* Nothing else the worker writes for a user carries a TTL.
Expire(u) ==
    /\ user_risk[u] # << >>
    /\ user_risk' = [user_risk EXCEPT ![u] = << >>]
    /\ UNCHANGED <<loop_vars, now, events, org_risk_scores, cohort_risk,
                   cohort_risk_history, enhanced_monitoring, local_vars, written>>

\* Recalculations of the subject by the worker instances, and the expiry of
\* what they stored; every request in hand is carried through and every TTL
\* runs out.
NextExpiry ==
    \/ \E w \in Workers, r \in RecalcRequests : Receive(w, r)
    \/ \E w \in Workers : Fetch(w)
    \/ \E w \in Workers : Setex(w)
    \/ \E w \in Workers : Zadd(w)
    \/ \E u \in Users : Expire(u)

ExpiryFairness ==
    /\ \A w \in Workers : WF_vars(Fetch(w)) /\ WF_vars(Setex(w)) /\ WF_vars(Zadd(w))
    /\ \A u \in Users : WF_vars(Expire(u))

SpecExpiry == InitHandler /\ [][NextExpiry]_vars /\ ExpiryFairness

\* ------------------------------------------------------ handler mid-request
\* The handler's instance standing at position p of request r, in a cohort
\* loop at member i with the scores collected so far, its user calculation
\* holding `record`; everything else as after construction.
InitStanding(p, r, i, scores, record) ==
    /\ now = 0
    /\ events = [u \in Users |-> [rows |-> NoEvents, last |-> 0]]
    /\ user_risk = [u \in Users |-> << >>]
    /\ org_risk_scores = [o \in Orgs |-> [u \in Users |-> -1]]
    /\ cohort_risk = [c \in Cohorts |-> << >>]
    /\ NoHistory
    /\ enhanced_monitoring = {}
    /\ pc = [w \in Workers |-> IF w = Handler THEN p ELSE "idle"]
    /\ req = [w \in Workers |-> IF w = Handler THEN r ELSE NoRequest]
    /\ idx = [w \in Workers |-> IF w = Handler THEN i ELSE 0]
    /\ user_metrics = [w \in Workers |-> NoMetrics]
    /\ risk_score = [w \in Workers |-> IF w = Handler THEN record ELSE NoRiskScore]
    /\ user_risk_scores = [w \in Workers |-> IF w = Handler THEN scores ELSE << >>]
    /\ cohort = [w \in Workers |-> NoCohort]
    /\ actions = [w \in Workers |-> << >>]
    /\ executed = [w \in Workers |-> << >>]
    /\ targets = [w \in Workers |-> {}]
    /\ trace = [w \in Workers |-> << >>]
    /\ resp = [w \in Workers |-> << >>]
    /\ processed_count = [w \in Workers |-> 0]
    /\ error_count = [w \in Workers |-> 0]
    /\ observed = [w \in Workers |-> NoObserved]
    /\ written = [u \in Users |-> << >>]
    /\ InitLoop

\* ---------------------------------------------------------- score function
\* _calculate_weighted_risk_score and _determine_risk_level on any factor
\* map: any subset of the factor names, values below 0 and above 100 included.
FactorValues == {-50, 0, 100, 150}
FactorMaps == UNION {[S -> FactorValues] : S \in SUBSET FactorNames}

ScoreRequest == Request("calculate_user_risk", Subject, "o1", None, << >>, TRUE)

\* factors.get(name, 0)
FactorOf(factors, name) == IF name \in DOMAIN factors THEN factors[name] ELSE 0

\* RiskScore built by calculate_user_risk from a factor map.
RiskScoreOf(user_id, org_id, risk_factors, clock) ==
    LET overall_score == calculate_weighted_risk_score(risk_factors)
    IN  [user_id |-> user_id,
         org_id |-> org_id,
         overall_score |-> overall_score,
         click_rate |-> FactorOf(risk_factors, "click_rate"),
         report_rate |-> FactorOf(risk_factors, "report_rate"),
         training_completion_rate |-> FactorOf(risk_factors, "training_completion"),
         recent_incidents |-> FactorOf(risk_factors, "recent_incidents"),
         risk_level |-> determine_risk_level(overall_score),
         last_updated |-> clock,
         factors |-> risk_factors]

\* The handler holds the factor map of a user calculation, not yet scored.
InitScore ==
    \E factors \in FactorMaps :
        InitStanding("score", ScoreRequest, 0, << >>,
                     [NoRiskScore EXCEPT !.user_id = Subject, !.org_id = "o1",
                                         !.factors = factors])

\* calculate_user_risk between the factor map and the store: the score, the
\* level and the RiskScore.
Score(w) ==
    /\ pc[w] = "score"
    /\ risk_score' = [risk_score EXCEPT ![w] =
                        RiskScoreOf(@.user_id, @.org_id, @.factors, now)]
    /\ Goto(w, "setex")
    /\ UNCHANGED <<loop_vars, now, events, store_vars, written, req, user_metrics,
                   actions, executed, targets, trace, observed>>

NextScore == Score(Handler)

SpecScore == InitScore /\ [][NextScore]_vars

\* ------------------------------------------------------- cohort aggregate
\* calculate_cohort_risk on any list of member scores: the handler stands in
\* the calculation of the last member, before the write to the ranked set,
\* the scores of the members before it collected.
CohortTestScores == {10 * Unit, 40 * Unit, 75 * Unit, 80 * Unit}

\* A cohort of n members.
MemberList(n) == [i \in 1..n |-> IF i % 2 = 1 THEN "u1" ELSE "u2"]

InitCohort ==
    \E scores \in SeqsUpTo(CohortTestScores, MaxCohortSize) \ {<< >>} :
        LET n == Len(scores)
            members == MemberList(n)
            last == scores[n]
        IN  InitStanding("zadd",
                         Request("calculate_cohort_risk", None, "o1", "c1", members, TRUE),
                         n, SubSeq(scores, 1, n - 1),
                         [NewRiskScore(members[n], "o1", NoMetrics, 0)
                             EXCEPT !.overall_score = last,
                                    !.risk_level = determine_risk_level(last)])

NextCohort ==
    \/ Zadd(Handler)
    \/ ExecuteAdaptiveAction(Handler)
    \/ Trend(Handler)
    \/ CohortStore(Handler)

SpecCohort == InitCohort /\ [][NextCohort]_vars

\* calculate_cohort_risk on any list of member scores when calculations of
\* earlier members have failed: the handler stands in the calculation of the
\* last of n members with fewer than n - 1 scores collected, or all of them.
InitMembers ==
    \E n \in 1..MaxCohortSize, last \in CohortTestScores :
        \E scores \in SeqsUpTo(CohortTestScores, n - 1) :
            LET members == MemberList(n)
            IN  InitStanding("zadd",
                             Request("calculate_cohort_risk", None, "o1", "c1", members, TRUE),
                             n, scores,
                             [NewRiskScore(members[n], "o1", NoMetrics, 0)
                                 EXCEPT !.overall_score = last,
                                        !.risk_level = determine_risk_level(last)])

SpecMembers == InitMembers /\ [][NextCohort]_vars

\* ---------------------------------------------------------- level function
\* _determine_risk_level on any score of the scale, in hundredths of a point:
\* the handler holds the overall score of a user calculation, its level not
\* yet determined.
LevelScores == 0..(100 * Unit)

InitLevel ==
    \E score \in LevelScores :
        InitStanding("level", ScoreRequest, 0, << >>,
                     [NoRiskScore EXCEPT !.user_id = Subject, !.org_id = "o1",
                                         !.overall_score = score,
                                         !.risk_level = None])

\* calculate_user_risk between the overall score and the store: the level and
\* the RiskScore.
Level(w) ==
    /\ pc[w] = "level"
    /\ risk_score' = [risk_score EXCEPT ![w] =
                        [@ EXCEPT !.risk_level =
                            determine_risk_level(risk_score[w].overall_score)]]
    /\ Goto(w, "setex")
    /\ UNCHANGED <<loop_vars, now, events, store_vars, written, req, user_metrics,
                   actions, executed, targets, trace, observed>>

NextLevel == Level(Handler)

SpecLevel == InitLevel /\ [][NextLevel]_vars

\* ------------------------------------------------------- events ingested
\* One worker instance handling complete requests of every kind while the
\* subject's events are ingested and time passes.
EventsRequests ==
    {Request("calculate_user_risk", Subject, "o1", None, << >>, TRUE),
     Request("calculate_cohort_risk", None, "o1", "c1", <<"u2", "u1">>, TRUE),
     Request("get_risk_recommendations", None, "o1", "c1", << >>, TRUE),
     Request("trigger_adaptive_campaign", None, "o1", None, << >>, TRUE)}

NextEvents ==
    \/ \E d \in {RecentDays, RecentDays + 1} : Tick(d)
    \/ \E p \in Profiles : EventsChange(Subject, p)
    \/ \E r \in EventsRequests : Receive(Handler, r)
    \/ Fetch(Handler)
    \/ Setex(Handler)
    \/ Zadd(Handler)
    \/ Trend(Handler)
    \/ CohortStore(Handler)
    \/ RecoGet(Handler)
    \/ CampaignQuery(Handler)

SpecEvents == Init /\ [][NextEvents]_vars

\* ------------------------------------------------ recommendation functions
\* get_risk_recommendations on any snapshot the store may hold for a cohort:
\* averages on and just below each limit of the tables, and every count of
\* high-risk users among up to MaxSnapshotUsers users.
SnapshotAverages ==
    {0, 100 * AvgPoint}
    \cup {t * AvgPoint : t \in {30, 40, 50, 60, 70}}
    \cup {t * AvgPoint - 1 : t \in {30, 40, 50, 60, 70}}

Trends == {"improving", "stable", "declining"}

RecoRequest == Request("get_risk_recommendations", None, "o1", "c1", << >>, TRUE)

\* The snapshot of a cohort of total_users users.
SnapshotOf(average_risk, high_risk_users, total_users, risk_trend) ==
    [CohortSnapshot(Request("calculate_cohort_risk", None, "o1", "c1", << >>, TRUE),
                    [average_risk |-> average_risk,
                     high_risk_users |-> high_risk_users,
                     risk_trend |-> risk_trend], 0)
        EXCEPT !.total_users = total_users,
               !.recommended_actions =
                    generate_cohort_recommendations(average_risk, high_risk_users,
                                                    total_users, risk_trend)]

\* The handler's instance standing at position p of request r, the store
\* holding the ranked sets `zsets` and the cohort snapshots `snapshots`;
\* everything else as after construction.
InitStoreHolding(p, r, zsets, snapshots) ==
    /\ now = 0
    /\ events = [u \in Users |-> [rows |-> NoEvents, last |-> 0]]
    /\ user_risk = [u \in Users |-> << >>]
    /\ org_risk_scores = zsets
    /\ cohort_risk = snapshots
    /\ NoHistory
    /\ enhanced_monitoring = {}
    /\ pc = [w \in Workers |-> IF w = Handler THEN p ELSE "idle"]
    /\ req = [w \in Workers |-> IF w = Handler THEN r ELSE NoRequest]
    /\ idx = [w \in Workers |-> 0]
    /\ user_metrics = [w \in Workers |-> NoMetrics]
    /\ risk_score = [w \in Workers |-> NoRiskScore]
    /\ user_risk_scores = [w \in Workers |-> << >>]
    /\ cohort = [w \in Workers |-> NoCohort]
    /\ actions = [w \in Workers |-> << >>]
    /\ executed = [w \in Workers |-> << >>]
    /\ targets = [w \in Workers |-> {}]
    /\ trace = [w \in Workers |-> << >>]
    /\ resp = [w \in Workers |-> << >>]
    /\ processed_count = [w \in Workers |-> 0]
    /\ error_count = [w \in Workers |-> 0]
    /\ observed = [w \in Workers |-> NoObserved]
    /\ written = [u \in Users |-> << >>]
    /\ InitLoop

InitReco ==
    \E average_risk \in SnapshotAverages, total_users \in 0..MaxSnapshotUsers,
       risk_trend \in Trends :
        \E high_risk_users \in 0..total_users :
            InitStoreHolding("reco_get", RecoRequest,
                [o \in Orgs |-> [u \in Users |-> -1]],
                [c \in Cohorts |->
                    <<SnapshotOf(average_risk, high_risk_users, total_users, risk_trend)>>])

NextReco == RecoGet(Handler)

SpecReco == InitReco /\ [][NextReco]_vars

\* ------------------------------------------------------- adaptive campaign
\* trigger_adaptive_campaign on any ranked set the store may hold for the
\* organization: each user absent, or present with a score on, just below or
\* away from the ends of the range read.
RankedScores == {-1, 0, 40 * Unit, 75 * Unit - 1, 75 * Unit, 90 * Unit, 100 * Unit}

InitCampaign ==
    \E r \in CampaignRequests, zset \in [Users -> RankedScores] :
        InitStoreHolding("campaign_query", r, [o \in Orgs |-> zset],
                         [c \in Cohorts |-> << >>])

NextCampaign ==
    \/ CampaignQuery(Handler)
    \/ CampaignPublish(Handler)

SpecCampaign == InitCampaign /\ [][NextCampaign]_vars

\* ================================================================ properties
\* The successful operations of the request in hand that put something where
\* another component can see it: a publish, or a flag written to the store.
Emitted(w) ==
    {i \in DOMAIN trace[w] :
        /\ trace[w][i].ok
        /\ trace[w][i].op \in {"publish coach.send", "publish notifications.manager",
                               "redis.setex enhanced_monitoring"}}

\* The worker has finished a user calculation and answered it with `level`.
Evaluated(w, level) ==
    /\ pc[w] = "done"
    /\ req[w].type = "calculate_user_risk"
    /\ resp[w] # << >>
    /\ resp[w][1].success
    /\ resp[w][1].risk_level = level

TableLevel(score) ==
    IF score >= 90 * Unit THEN "critical"
    ELSE IF score >= 75 * Unit THEN "high"
    ELSE IF score >= 50 * Unit THEN "medium"
    ELSE "low"

\* C3: in every state of the store, interleaved recalculations of one user
\* included, a stored user record's risk_level is the level the threshold
\* table gives its overall_score.
C3_StoredLevelMatchesScore ==
    \A u \in Users :
        user_risk[u] # << >> =>
            user_risk[u][1].risk_level = TableLevel(user_risk[u][1].overall_score)

\* C3 witness: both instances have written the subject's record, one a low
\* score and the other a score on the medium threshold, which is stored.
C3_Witness ==
    /\ pc["w1"] = "zadd" /\ pc["w2"] = "zadd"
    /\ risk_score["w1"].risk_level # risk_score["w2"].risk_level
    /\ user_risk[Subject] # << >>
    /\ user_risk[Subject][1].overall_score = 50 * Unit
    /\ user_risk[Subject][1].risk_level = "medium"

\* C4: the store holds, for a user, exactly the whole record of the
\* recalculation whose write landed last, and nothing before any write.
C4_LastWriteWins ==
    \A u \in Users :
        user_risk[u] = IF written[u] = << >> THEN << >> ELSE <<written[u][1].record>>

\* The worker's request wrote the user's record.
WroteRecord(w) ==
    \E i \in DOMAIN trace[w] : trace[w][i] = Op("redis.setex user_risk", TRUE)

\* C4 witness: two concurrent recalculations of the subject have completed
\* with different scores, w1's write landed last and its record is the stored one.
C4_Witness ==
    /\ \A w \in Workers : pc[w] = "done" /\ WroteRecord(w) /\ resp[w] # << >>
    /\ resp["w1"][1].success /\ resp["w2"][1].success
    /\ resp["w1"][1].risk_score # resp["w2"][1].risk_score
    /\ written[Subject] # << >>
    /\ written[Subject][1].by = "w1"
    /\ user_risk[Subject] = <<written[Subject][1].record>>
    /\ user_risk[Subject][1].overall_score = resp["w1"][1].risk_score

\* C5: once a cohort's risk has been calculated and stored, the cohort's
\* history holds the computed average, and never more than five entries.
C5_HistoryHoldsAverages ==
    \A c \in Cohorts :
        /\ Len(cohort_risk_history[c]) <= HistoryLast + 1
        /\ cohort_risk[c] # << >> =>
              \E i \in DOMAIN cohort_risk_history[c] :
                  cohort_risk_history[c][i] = cohort_risk[c][1].average_risk_score

\* The trend of a change of d (in the unit of averages) by the 5-point rule.
TrendRule(d) ==
    IF d < -(5 * AvgPoint) THEN "improving"
    ELSE IF d > 5 * AvgPoint THEN "declining"
    ELSE "stable"

\* The history list the trend calculation of w's request reads.
HistoryRead(w) == Lrange(cohort_risk_history[req[w].cohort_id])

\* The trend calculation of w's cohort request has returned.
TrendDecided(w) == pc[w] = "cohort_store"

\* C6 as stated: with at least 3 averages in the history, the trend compares
\* the current average with history[-3].
C6_BaselineThirdOfHistory ==
    \A w \in Workers :
        LET h == HistoryRead(w) IN
        (TrendDecided(w) /\ Len(h) >= 3) =>
            cohort[w].risk_trend = TrendRule(cohort[w].average_risk - h[Len(h) - 2])

\* C6 amended: with at least 2 averages in the history, the trend compares
\* the current average with history[-2], the third from last once the current
\* average is appended.
C6_BaselineSecondOfHistory ==
    \A w \in Workers :
        LET h == HistoryRead(w) IN
        (TrendDecided(w) /\ Len(h) >= 2) =>
            cohort[w].risk_trend = TrendRule(cohort[w].average_risk - h[Len(h) - 1])

\* C6 witness: a history of 3 whose history[-3] lies 6 points above the
\* average and whose history[-2] lies 5 below was read, and the trend is stable.
C6_Witness ==
    \E w \in Workers :
        LET h == HistoryRead(w) IN
        /\ TrendDecided(w)
        /\ Len(h) = 3
        /\ h[1] = cohort[w].average_risk + 6 * AvgPoint
        /\ h[2] = cohort[w].average_risk - 5 * AvgPoint
        /\ cohort[w].risk_trend = "stable"

\* C7: fewer than 2 historical points give stable; otherwise the trend is
\* improving exactly when the average fell by more than 5 points against the
\* compared value, declining exactly when it rose by more than 5, and stable
\* exactly when the change is within [-5, +5].
C7_TrendClassification ==
    \A w \in Workers :
        TrendDecided(w) =>
            LET h == HistoryRead(w)
                trend == cohort[w].risk_trend
                d == cohort[w].average_risk - h[Len(h) - 1]
            IN  IF Len(h) < 2 THEN trend = "stable"
                ELSE /\ (trend = "improving") <=> (d < -(5 * AvgPoint))
                     /\ (trend = "declining") <=> (d > 5 * AvgPoint)
                     /\ (trend = "stable") <=> (d >= -(5 * AvgPoint) /\ d <= 5 * AvgPoint)

\* C7 witness: the average rose by exactly 5 points against the compared value
\* of a full history read (one entry of the list left unread), and the trend
\* is stable.
C7_Witness ==
    \E w \in Workers :
        LET h == HistoryRead(w) IN
        /\ TrendDecided(w)
        /\ Len(h) = HistoryLast + 1
        /\ Len(cohort_risk_history[req[w].cohort_id]) > Len(h)
        /\ cohort[w].average_risk - h[Len(h) - 1] = 5 * AvgPoint
        /\ cohort[w].risk_trend = "stable"

\* Worker w's write of the record of user u lands in this step.
RecordLands(w, u) ==
    /\ pc[w] = "setex" /\ pc'[w] = "zadd"
    /\ risk_score[w].user_id = u
    /\ user_risk'[u] = <<risk_score[w]>>

\* w's recalculation of u follows the one that wrote the stored record: that
\* record was in the store when w queried the events, and the events' counts
\* were then what they were for the stored record.
RecalculatedUnchanged(w, u) ==
    /\ written[u] # << >>
    /\ user_risk[u] # << >>
    /\ observed[w].stored = user_risk[u]
    /\ observed[w].rows = written[u][1].rows

\* Two records agree in every field but last_updated.
SameButLastUpdated(a, b) == [a EXCEPT !.last_updated = 0] = [b EXCEPT !.last_updated = 0]

SameReading(w, u) ==
    /\ user_metrics[w].rows = observed[w].rows
    /\ written[u][1].metrics.rows = written[u][1].rows
    /\ (user_metrics[w].last >= risk_score[w].last_updated - 30)
         <=> (written[u][1].metrics.last >= written[u][1].record.last_updated - 30)

C9_AlwaysAnswered ==
    \A w \in Workers :
        (pc[w] = "done" /\ req[w].reply) =>
            /\ Len(resp[w]) = 1
            /\ resp[w][1].success \in BOOLEAN
            /\ resp[w][1].has_error => ~resp[w][1].success
            /\ processed_count[w] + error_count[w] >= 1

\* C9 witness: a campaign request with a reply address whose publish failed
\* has been answered with the error response.
C9_Witness ==
    \E w \in Workers :
        /\ pc[w] = "done" /\ req[w].reply
        /\ req[w].type = "trigger_adaptive_campaign"
        /\ \E i \in DOMAIN trace[w] : trace[w][i] = Op("publish campaign.schedule", FALSE)
        /\ resp[w] = <<Response(FALSE, TRUE, "publish failed")>>

\* The request lacks an identifier its type reads.
LacksIdentifier(r) ==
    CASE r.type = "calculate_user_risk" -> r.user_id = None \/ r.org_id = None
      [] r.type = "calculate_cohort_risk" -> r.cohort_id = None \/ r.org_id = None
      [] r.type = "get_risk_recommendations" -> r.cohort_id = None \/ r.org_id = None
      [] r.type = "trigger_adaptive_campaign" -> r.org_id = None
      [] OTHER -> FALSE

\* C10: a request of one of the four types that lacks a required identifier
\* is answered success false with an error, no event store, key-value store
\* or publish operation having run for it.
C10_MissingIdentifierRejected ==
    \A w \in Workers :
        (pc[w] # "idle" /\ req[w].reply /\ LacksIdentifier(req[w])) =>
            /\ pc[w] = "done"
            /\ trace[w] = << >>
            /\ Len(resp[w]) = 1
            /\ ~resp[w][1].success
            /\ resp[w][1].has_error

\* The event store query of the user calculation in hand has just failed.
FetchFailed(w) ==
    /\ pc[w] = "setex"
    /\ trace[w] # << >>
    /\ trace[w][Len(trace[w])] = Op("clickhouse.execute", FALSE)

\* A user request whose event store query failed and whose writes succeeded.
FailedSoft(w) ==
    /\ pc[w] = "done"
    /\ req[w].type = "calculate_user_risk"
    /\ req[w].reply
    /\ trace[w] = <<Op("clickhouse.execute", FALSE),
                    Op("redis.setex user_risk", TRUE),
                    Op("redis.zadd org_risk_scores", TRUE)>>

\* C11 as stated: when the event store query fails the calculation goes on
\* and succeeds, with every factor 0, a score of 0 and the level low.
C11_FailsSoftToZero ==
    \A w \in Workers :
        /\ FetchFailed(w) =>
              /\ risk_score[w].factors = [f \in FactorNames |-> 0]
              /\ risk_score[w].overall_score = 0
              /\ risk_score[w].risk_level = "low"
        /\ FailedSoft(w) => resp[w] = <<UserResult(0, "low")>>

\* C11 amended: when the event store query fails the calculation goes on and
\* succeeds, with every factor 0 but time_to_report at its default of 50, a
\* score of 5.0 and the level low.
C11_FailsSoftToDefaults ==
    \A w \in Workers :
        /\ FetchFailed(w) =>
              /\ risk_score[w].factors =
                    [f \in FactorNames |-> IF f = "time_to_report" THEN 50 ELSE 0]
              /\ risk_score[w].overall_score = 5 * Unit
              /\ risk_score[w].risk_level = "low"
        /\ FailedSoft(w) => resp[w] = <<UserResult(5 * Unit, "low")>>

\* C11 witness: a user with events was calculated while the event store was
\* down; the request succeeded and the record with score 5.0 is stored.
C11_Witness ==
    \E w \in Workers :
        /\ FailedSoft(w)
        /\ events[req[w].user_id].rows # NoEvents
        /\ resp[w] = <<UserResult(5 * Unit, "low")>>
        /\ user_risk[req[w].user_id] # << >>
        /\ user_risk[req[w].user_id][1].overall_score = 5 * Unit

\* The worker has handled a cohort request that names its cohort and organization.
CohortDone(w) ==
    /\ pc[w] = "done"
    /\ req[w].type = "calculate_cohort_risk"
    /\ ~LacksIdentifier(req[w])

\* The operations `name` of the request in hand, by outcome.
OpsOf(w, name, ok) == {i \in DOMAIN trace[w] : trace[w][i] = Op(name, ok)}

\* No member's calculation of the cohort request came through.
NoMemberSucceeded(w) == OpsOf(w, "redis.zadd org_risk_scores", TRUE) = {}

\* C12: a cohort request with no members, or whose members all fail, is
\* answered success false; no trend is computed and no snapshot is written.
C12_EmptyCohortFails ==
    \A w \in Workers :
        (CohortDone(w) /\ NoMemberSucceeded(w)) =>
            /\ req[w].reply => (Len(resp[w]) = 1 /\ ~resp[w][1].success)
            /\ \A i \in DOMAIN trace[w] :
                  trace[w][i].op \notin {"redis.lrange cohort_risk_history",
                                         "redis.setex cohort_risk"}

\* C12 witness: both members of a cohort failed at the store and the request
\* was answered with the failure result.
C12_Witness ==
    \E w \in Workers :
        /\ CohortDone(w)
        /\ Len(req[w].user_ids) = 2
        /\ NoMemberSucceeded(w)
        /\ Cardinality(OpsOf(w, "clickhouse.execute", TRUE)) = 2
        /\ resp[w] = <<Response(FALSE, TRUE, "No valid user risk scores calculated")>>

\* The scores of the members whose calculation came through, read off the
\* operations of the request: per member a query, a record write and, if that
\* succeeded, a write to the ranked set.
RECURSIVE SucceededScores(_, _, _)
SucceededScores(tr, users, org) ==
    IF users = << >> \/ tr = << >> THEN << >>
    ELSE LET u == Head(users)
             metrics == IF tr[1].ok THEN events[u] ELSE NoMetrics
             score == NewRiskScore(u, org, metrics, now).overall_score
             used == IF tr[2].ok THEN 3 ELSE 2
             rest == SucceededScores(SubSeq(tr, used + 1, Len(tr)), Tail(users), org)
         IN  IF tr[2].ok /\ tr[3].ok THEN <<score>> \o rest ELSE rest

\* Event store queries of the request in hand.
Queries(w) == {i \in DOMAIN trace[w] : trace[w][i].op = "clickhouse.execute"}

\* C13: a cohort request evaluates every member, also after a failing one,
\* and aggregates exactly the members that came through: the average and the
\* high-risk count are those of their scores.
C13_FailedMembersExcluded ==
    \A w \in Workers :
        /\ CohortDone(w) => Cardinality(Queries(w)) = Len(req[w].user_ids)
        /\ pc[w] \in {"trend", "cohort_store"} =>
              LET through == SucceededScores(trace[w], req[w].user_ids, req[w].org_id)
              IN  /\ Cardinality(Queries(w)) = Len(req[w].user_ids)
                  /\ user_risk_scores[w] = through
                  /\ cohort[w].average_risk * Len(through) = SumSeq(through) * AvgUnit
                  /\ cohort[w].high_risk_users =
                        Cardinality({i \in DOMAIN through : through[i] >= 75 * Unit})

\* C13 witness: the first of two members failed at the store, the second was
\* evaluated, and the aggregate is the second member's score.
C13_Witness ==
    \E w \in Workers :
        /\ pc[w] = "trend"
        /\ Len(req[w].user_ids) = 2
        /\ trace[w][2] = Op("redis.setex user_risk", FALSE)
        /\ Len(user_risk_scores[w]) = 1
        /\ cohort[w].average_risk = user_risk_scores[w][1] * AvgUnit

\* C14: when every member of a cohort scored, the stored snapshot's average
\* is the arithmetic mean of the members' scores, its high_risk_users the
\* number of scores of 75 or more, its total_users the number of members.
C14_CohortAggregate ==
    [][\A w \in Workers :
          (/\ pc[w] = "cohort_store" /\ pc'[w] = "done"
           /\ resp'[w] # << >> /\ resp'[w][1].success
           /\ Len(user_risk_scores[w]) = Len(req[w].user_ids)) =>
              LET snapshot == cohort_risk'[req[w].cohort_id][1]
                  scores == user_risk_scores[w]
              IN  /\ snapshot.average_risk_score * Len(scores) = SumSeq(scores) * AvgUnit
                  /\ snapshot.high_risk_users =
                        Cardinality({i \in DOMAIN scores : scores[i] >= 75 * Unit})
                  /\ snapshot.total_users = Len(scores)]_vars

\* C14 witness: the snapshot of three members scoring 80, 40 and 10 is
\* stored: three times its average is 130 points, one member is high-risk.
C14_Witness ==
    \E c \in Cohorts :
        /\ cohort_risk[c] # << >>
        /\ cohort_risk[c][1].total_users = 3
        /\ cohort_risk[c][1].high_risk_users = 1
        /\ cohort_risk[c][1].average_risk_score * 3 = 130 * AvgPoint
        /\ \E w \in Workers : pc[w] = "done" /\ resp[w] # << >> /\ resp[w][1].success

\* C15: a periodic task ends only at the loop test with the worker stopped;
\* a failing cycle leaves it in the 5-minute sleep, and from there another
\* cycle follows unless the worker is stopped.
C15_LoopSurvivesFailures ==
    /\ [][\A t \in Tasks :
            (loop'[t] = "exited" /\ loop[t] # "exited") =>
                (loop[t] = "check" /\ ~is_running)]_vars
    /\ [](\A t \in Tasks : loop[t] = "backoff" => loop_wait[t] = 300)
    /\ \A t \in Tasks : (loop[t] = "backoff") ~> (loop[t] = "cycle" \/ ~is_running)

\* C15 witness: a cycle of the only periodic task runs after MaxFailures
\* cycles failed.
C15_Witness ==
    /\ is_running
    /\ loop[1] = "cycle"
    /\ \A t \in Tasks : t # 1 => loop[t] = "none"
    /\ loop_failures = MaxFailures

\* C16: a periodic task starts a cycle only while the worker runs, and once
\* the worker is stopped every periodic task ends, unless the worker is
\* started again.
C16_LoopExitsAfterStop ==
    /\ [][\A t \in Tasks :
            (loop'[t] = "cycle" /\ loop[t] # "cycle") => is_running]_vars
    /\ \A t \in Tasks :
          (~is_running /\ loop[t] # "none") ~> (is_running \/ loop[t] = "exited")

\* C16 witness: the worker was stopped while its periodic task slept, and
\* the task has ended.
C16_Witness ==
    /\ ~is_running
    /\ loop[1] = "exited"
    /\ loop_wait[1] = 0
    /\ \A t \in Tasks : t # 1 => loop[t] = "none"

\* The store holds risk data of the user: the record or a ranked-set entry.
HasRiskData(u) ==
    \/ user_risk[u] # << >>
    \/ \E o \in Orgs : org_risk_scores[o][u] # -1

\* A worker instance is calculating the user's risk.
Recalculating(u) ==
    \E w \in Workers : pc[w] \in {"fetch", "setex", "zadd"} /\ CurrentUser(w) = u

\* C17: whatever a recalculation stored for a user expires: unless the user
\* is recalculated again, the store eventually holds no risk data of the user.
C17_UserDataExpires ==
    \A u \in Users : [](HasRiskData(u) => <>(~HasRiskData(u) \/ Recalculating(u)))

\* The factor map of the user calculation in hand has been scored.
Scored(w) == pc[w] = "setex"

\* C18: the overall score of any factor map lies between 0 and 100 points.
C18_ScoreInRange ==
    \A w \in Workers :
        Scored(w) =>
            /\ risk_score[w].overall_score >= 0
            /\ risk_score[w].overall_score <= 100 * Unit

\* C18 witness: a map with a value above 100 and a value below 0, whose
\* weighted sum is negative, was scored 0.
C18_Witness ==
    \E w \in Workers :
        /\ Scored(w)
        /\ DOMAIN risk_score[w].factors = {"click_rate", "report_rate"}
        /\ risk_score[w].factors["report_rate"] = 150
        /\ risk_score[w].factors["click_rate"] = -50
        /\ risk_score[w].overall_score = 0

\* min(max(x, lo), hi)
Clamp(x, lo, hi) == IF x < lo THEN lo ELSE IF x > hi THEN hi ELSE x

\* The value of a factor clamped to [0,100], 0 for a factor the map omits.
Clamped(factors, name) ==
    IF name \in DOMAIN factors THEN Clamp(factors[name], 0, 100) ELSE 0

\* C19: the overall score is the weighted sum of the clamped values of the
\* factors, with weights +0.35, -0.25, -0.20, +0.15, +0.10, +0.05, clamped to
\* [0,100]; a factor left out counts as 0.
C19_WeightedSumOfClamped ==
    \A w \in Workers :
        Scored(w) =>
            LET f == risk_score[w].factors
            IN  risk_score[w].overall_score =
                    Clamp(35 * Clamped(f, "click_rate")
                          - 25 * Clamped(f, "report_rate")
                          - 20 * Clamped(f, "training_completion")
                          + 15 * Clamped(f, "recent_incidents")
                          + 10 * Clamped(f, "time_to_report")
                          + 5 * Clamped(f, "repeat_offender"),
                          0, 100 * Unit)

\* C19 witness: a map of two factors, one above 100, was scored 45 points.
C19_Witness ==
    \E w \in Workers :
        /\ Scored(w)
        /\ DOMAIN risk_score[w].factors = {"click_rate", "time_to_report"}
        /\ risk_score[w].factors["click_rate"] = 150
        /\ risk_score[w].factors["time_to_report"] = 100
        /\ risk_score[w].overall_score = 45 * Unit

\* The factor map with click_rate 100 and every other factor 0.
ClickOnly == [f \in FactorNames |-> IF f = "click_rate" THEN 100 ELSE 0]

\* C20 as stated: the map with click_rate 100 and the rest 0 scores 35.0 and
\* gets the level medium.
C20_ClickOnlyIsMedium ==
    \A w \in Workers :
        (Scored(w) /\ risk_score[w].factors = ClickOnly) =>
            /\ risk_score[w].overall_score = 35 * Unit
            /\ risk_score[w].risk_level = "medium"

\* C20 amended: the map with click_rate 100 and the rest 0 scores 35.0 and
\* gets the level low.
C20_ClickOnlyIsLow ==
    \A w \in Workers :
        (Scored(w) /\ risk_score[w].factors = ClickOnly) =>
            /\ risk_score[w].overall_score = 35 * Unit
            /\ risk_score[w].risk_level = "low"

\* C20 witness: the map with click_rate 100 and the rest 0 was scored.
C20_Witness ==
    \E w \in Workers :
        /\ Scored(w)
        /\ risk_score[w].factors = ClickOnly
        /\ risk_score[w].click_rate = 100

\* The level of the score in hand has been determined.
Levelled(w) == pc[w] = "setex"

\* C21: the level depends on the score alone, by inclusive lower thresholds
\* taken highest first: critical from 90 points, high from 75 and below 90,
\* medium from 50 and below 75, low below 50; so 90 is critical, the score
\* just below it high, 75 high, just below it medium, 50 medium, just below
\* it low, and 0 low.
C21_LevelBoundaries ==
    \A w \in Workers :
        Levelled(w) =>
            LET score == risk_score[w].overall_score
                level == risk_score[w].risk_level
            IN  /\ score >= 90 * Unit => level = "critical"
                /\ (75 * Unit <= score /\ score < 90 * Unit) => level = "high"
                /\ (50 * Unit <= score /\ score < 75 * Unit) => level = "medium"
                /\ score < 50 * Unit => level = "low"
                /\ score = 90 * Unit - 1 => level = "high"
                /\ score = 75 * Unit - 1 => level = "medium"
                /\ score = 50 * Unit - 1 => level = "low"
                /\ score = 0 => level = "low"

\* C21 witness: the score one hundredth below 90 points was given its level.
C21_Witness ==
    \E w \in Workers :
        /\ Levelled(w)
        /\ risk_score[w].overall_score = 90 * Unit - 1
        /\ risk_score[w].risk_level = "high"

\* The evaluations of the scorer whose input and result the state holds:
\* those of the calculations in hand and, for each user, the one stored last.
Evaluations ==
    {risk_score[w] : w \in {x \in Workers : pc[x] \in {"setex", "zadd"}}}
    \cup {written[u][1].record : u \in {x \in Users : written[x] # << >>}}

\* Equal factor maps were given equal scores and levels.
ScoringDeterministic ==
    \A a, b \in Evaluations :
        a.factors = b.factors =>
            /\ a.overall_score = b.overall_score
            /\ a.risk_level = b.risk_level

\* A step in which a worker instance evaluates the scorer leaves the store
\* and the instances' own state as they were.
ScoringPure ==
    \A w \in Workers :
        (pc[w] = "fetch" /\ pc'[w] = "setex") =>
            UNCHANGED <<store_vars, processed_count, error_count, loop_vars>>

Percentage(n, of) == IF of > 0 THEN (n * 100) \div of ELSE 0

\* C23: whatever the event counts, the click_rate, report_rate and
\* training_completion_rate of a RiskScore lie between 0 and 100: the clicked
\* (reported) share of the messages sent and the completed share of the
\* trainings started, 0 when nothing was sent or started.
C23_RatesArePercentages ==
    \A u \in Users :
        written[u] # << >> =>
            LET record == written[u][1].record
                rows == written[u][1].metrics.rows
                sent_total == rows["email_sent"] + rows["sms_sent"]
                clicked_total == rows["email_clicked"] + rows["sms_clicked"]
                reported_total == rows["email_reported"] + rows["sms_reported"]
            IN  /\ record.click_rate = Percentage(clicked_total, sent_total)
                /\ record.report_rate = Percentage(reported_total, sent_total)
                /\ record.training_completion_rate =
                        Percentage(rows["training_completed"], rows["training_started"])
                /\ record.click_rate \in 0..100
                /\ record.report_rate \in 0..100
                /\ record.training_completion_rate \in 0..100

\* The worker has answered a recommendation request with recommendations.
Recommended(w) ==
    /\ pc[w] = "done"
    /\ req[w].type = "get_risk_recommendations"
    /\ resp[w] # << >>
    /\ resp[w][1].success

\* C24: for every stored cohort snapshot the recommendations follow the
\* tables: frequency weekly from an average of 70, bi-weekly from 50, monthly
\* from 30, else quarterly; difficulty beginner from 60, intermediate from 40,
\* else advanced; targets the high-risk users only when they exceed 30% of
\* total_users, with a random sample when they exceed 10%, else all users.
C24_RecommendationTables ==
    \A w \in Workers :
        Recommended(w) =>
            LET snapshot == cohort_risk[req[w].cohort_id][1]
                avg == snapshot.average_risk_score
                high == snapshot.high_risk_users
                total == snapshot.total_users
                r == resp[w][1].recommendations
            IN  /\ r.campaign_frequency =
                        CASE avg >= 70 * AvgPoint -> "weekly"
                          [] avg < 70 * AvgPoint /\ avg >= 50 * AvgPoint -> "bi-weekly"
                          [] avg < 50 * AvgPoint /\ avg >= 30 * AvgPoint -> "monthly"
                          [] OTHER -> "quarterly"
                /\ r.difficulty_level =
                        CASE avg >= 60 * AvgPoint -> "beginner"
                          [] avg < 60 * AvgPoint /\ avg >= 40 * AvgPoint -> "intermediate"
                          [] OTHER -> "advanced"
                /\ r.target_users =
                        CASE 100 * high > 30 * total -> <<"high_risk_users_only">>
                          [] 100 * high <= 30 * total /\ 100 * high > 10 * total ->
                                <<"high_risk_users", "random_sample">>
                          [] OTHER -> <<"all_users">>

\* C24 witness: recommendations were given for a snapshot whose high-risk
\* users are exactly 30% of its users and whose average is just below 70.
C24_Witness ==
    \E w \in Workers :
        /\ Recommended(w)
        /\ cohort_risk["c1"][1].high_risk_users = 3
        /\ cohort_risk["c1"][1].total_users = 10
        /\ cohort_risk["c1"][1].average_risk_score = 70 * AvgPoint - 1
        /\ resp[w][1].recommendations.target_users = <<"high_risk_users", "random_sample">>
        /\ resp[w][1].recommendations.campaign_frequency = "bi-weekly"
        /\ resp[w][1].recommendations.difficulty_level = "beginner"

\* The place of an external operation in a user calculation: the metrics
\* query, the two store writes, the emissions of the dispatcher.
StepRank(op) ==
    CASE op = "clickhouse.execute" -> 1
      [] op = "redis.setex user_risk" -> 2
      [] op = "redis.zadd org_risk_scores" -> 3
      [] OTHER -> 4

\* The request dispatched adaptive actions: it executed one or tried to emit.
Dispatched(w) ==
    \/ executed[w] # << >>
    \/ \E i \in DOMAIN trace[w] : StepRank(trace[w][i].op) = 4

\* A store write of the request failed.
StoreWriteFailed(w) ==
    \E i \in DOMAIN trace[w] : StepRank(trace[w][i].op) \in {2, 3} /\ ~trace[w][i].ok

\* The request wrote the score record and the ranked-set entry.
StoreWritten(w) ==
    /\ Op("redis.setex user_risk", TRUE) \in {trace[w][i] : i \in DOMAIN trace[w]}
    /\ Op("redis.zadd org_risk_scores", TRUE) \in {trace[w][i] : i \in DOMAIN trace[w]}

\* C25: in a user risk recalculation the metrics query, the store write and
\* the dispatch follow one another in that order; adaptive actions are
\* dispatched only after the recalculation's store write succeeded and only
\* for a new level of high or critical; when the store write fails the
\* request is answered as a failure and nothing is dispatched.
C25_StoreBeforeDispatch ==
    \A w \in Workers :
        req[w].type = "calculate_user_risk" =>
            /\ \A j \in DOMAIN trace[w] :
                    IF j = 1 THEN StepRank(trace[w][j].op) = 1
                    ELSE /\ StepRank(trace[w][j - 1].op) = 1 \/ trace[w][j - 1].ok
                         /\ \/ StepRank(trace[w][j].op) = StepRank(trace[w][j - 1].op) + 1
                            \/ /\ StepRank(trace[w][j].op) = 4
                               /\ StepRank(trace[w][j - 1].op) = 4
            /\ Dispatched(w) =>
                    /\ StoreWritten(w)
                    /\ written[req[w].user_id][1].record.risk_level \in {"high", "critical"}
            /\ (StoreWriteFailed(w) /\ pc[w] = "done") =>
                    /\ ~Dispatched(w)
                    /\ error_count[w] > 0
                    /\ req[w].reply => (resp[w] # << >> /\ ~resp[w][1].success)

\* C25 witness: a recalculation that found the level critical has written
\* both store entries, then emitted, and is answered.
C25_Witness ==
    \E w \in Workers :
        /\ Evaluated(w, "critical")
        /\ StoreWritten(w)
        /\ Len(trace[w]) > 3
        /\ trace[w][4] = Op("publish coach.send", TRUE)
        /\ Len(executed[w]) = Len(CriticalActions)

\* The members of the organization's ranked set with a score from 75 to 100.
InHighRange(org_id) ==
    IF org_id \in Orgs
    THEN {u \in Users : /\ org_risk_scores[org_id][u] >= 75 * Unit
                        /\ org_risk_scores[org_id][u] <= 100 * Unit}
    ELSE {}

\* The publishes of the worker's request to campaign.schedule.
CampaignPublishes(w) ==
    {i \in DOMAIN trace[w] : trace[w][i].op = "publish campaign.schedule"}

\* The worker's request has read the ranked set.
RankedSetRead(w) ==
    \E i \in DOMAIN trace[w] :
        trace[w][i] = Op("redis.zrevrangebyscore org_risk_scores", TRUE)

\* What a campaign trigger has published and answered, given the ranked set.
CampaignAsRanked ==
    \A w \in Workers :
        req[w].type = "trigger_adaptive_campaign" =>
            LET expected == InHighRange(req[w].org_id)
            IN  /\ Cardinality(CampaignPublishes(w)) <= 1
                /\ (pc[w] = "campaign_publish" \/ CampaignPublishes(w) # {}) =>
                        (expected # {} /\ targets[w] = expected)
                /\ (pc[w] = "done" /\ RankedSetRead(w) /\ expected # {}) =>
                        /\ Cardinality(CampaignPublishes(w)) = 1
                        /\ resp[w][1].success =
                                (Op("publish campaign.schedule", TRUE) \in
                                    {trace[w][i] : i \in DOMAIN trace[w]})
                /\ (pc[w] = "done" /\ RankedSetRead(w) /\ expected = {}) =>
                        /\ CampaignPublishes(w) = {}
                        /\ resp[w] # << >> /\ ~resp[w][1].success

\* C26: a campaign trigger for an organization publishes one message to
\* campaign.schedule, targeting exactly the members of the organization's
\* ranked set with a score from 75 to 100, when there are any; when there are
\* none it answers success false and publishes nothing; the store is left as
\* it was either way.
C26_CampaignTargetsHighRange ==
    []CampaignAsRanked /\ [][UNCHANGED store_vars]_vars

\* C26 witness: a trigger was answered with success after one publish whose
\* targets are the user ranked at exactly 75, the other user being ranked
\* just below.
C26_Witness ==
    \E w \in Workers :
        /\ pc[w] = "done"
        /\ req[w].type = "trigger_adaptive_campaign"
        /\ resp[w][1].success
        /\ Cardinality(CampaignPublishes(w)) = 1
        /\ targets[w] = {"u1"}
        /\ org_risk_scores["o1"]["u1"] = 75 * Unit
        /\ org_risk_scores["o1"]["u2"] = 75 * Unit - 1

\* Event tables with no, one or many events of each type.
CountMaps == [EventTypes -> {0, 1, 200}]

\* The score of a user calculation is at most 60 points whatever the counts
\* and the age of the events.
UserScoreAtMostSixty ==
    \A rows \in CountMaps, age \in {0, RecentDays + 1} :
        NewRiskScore(Subject, "o1", [rows |-> rows, last |-> 0], age).overall_score
            <= 60 * Unit

\* The score of a factor map is at most 65 points.
FactorScoreAtMostSixtyFive ==
    \A factors \in FactorMaps : calculate_weighted_risk_score(factors) <= 65 * Unit

\* C27: a user risk calculation scores at most 60 points whatever the event
\* counts (any factor map at most 65), so its level is never high or
\* critical; hence the worker never dispatches an adaptive action, never sets
\* an enhanced-monitoring flag and never writes a score of 75 or more into a
\* ranked score set.
C27_HighNeverReached ==
    /\ UserScoreAtMostSixty
    /\ FactorScoreAtMostSixtyFive
    /\ \A w \in Workers :
            /\ risk_score[w].overall_score <= 60 * Unit
            /\ risk_score[w].risk_level \notin {"high", "critical"}
            /\ pc[w] # "dispatch"
            /\ actions[w] = << >> /\ executed[w] = << >>
            /\ \A i \in DOMAIN trace[w] :
                    trace[w][i].op \notin {"publish coach.send",
                                           "publish notifications.manager",
                                           "redis.setex enhanced_monitoring"}
    /\ enhanced_monitoring = {}
    /\ \A o \in Orgs, u \in Users : org_risk_scores[o][u] < 75 * Unit
    /\ \A u \in Users : user_risk[u] # << >> =>
            /\ user_risk[u][1].overall_score <= 60 * Unit
            /\ user_risk[u][1].risk_level \notin {"high", "critical"}

\* C27 witness: the subject, with far more clicks than messages and no
\* report, was scored 60 points, level medium, and ranked with that score.
C27_Witness ==
    /\ Evaluated(Handler, "medium")
    /\ resp[Handler][1].risk_score = 60 * Unit
    /\ org_risk_scores["o1"][Subject] = 60 * Unit
    /\ user_risk[Subject] # << >>
    /\ user_risk[Subject][1].overall_score = 60 * Unit

\* No operation of the requests in hand or handled last has failed.
NoOperationFailed == \A w \in Workers : \A i \in DOMAIN trace[w] : trace[w][i].ok

\* C28: whenever no recalculation of a user is in progress and the user's
\* score record is in the store, the user's score in the organization's
\* ranked set is the overall_score of that record, however concurrent
\* recalculations of the user, each writing the record and then the ranked
\* set, were interleaved (every write succeeding).
C28_RankedScoreMatchesRecord ==
    \A u \in Users :
        (NoOperationFailed /\ ~Recalculating(u) /\ user_risk[u] # << >>) =>
            org_risk_scores[user_risk[u][1].org_id][u] = user_risk[u][1].overall_score

\* The emissions of the request that failed.
FailedEmissions(w) ==
    {i \in DOMAIN trace[w] : StepRank(trace[w][i].op) = 4 /\ ~trace[w][i].ok}

\* A user calculation whose dispatch failed: the failed emission is the last
\* operation of the request and belongs to the action after those executed,
\* the request is answered with an error, and the record and ranked-set entry
\* the calculation wrote are in the store.
DispatchFailureSurfaces ==
    \A w \in Workers :
        (req[w].type = "calculate_user_risk" /\ FailedEmissions(w) # {}) =>
            LET u == req[w].user_id
                record == written[u][1].record
                set == AdaptiveActions(record.risk_level)
                n == Len(executed[w])
            IN  /\ FailedEmissions(w) = {Len(trace[w])}
                /\ pc[w] = "done" /\ actions[w] = << >>
                /\ n < Len(set)
                /\ executed[w] = SubSeq(set, 1, n)
                /\ trace[w][Len(trace[w])].op = ActionEmission(set[n + 1])
                /\ Cardinality(Emitted(w)) = Len(trace[w]) - 4
                /\ resp[w] = <<Response(FALSE, TRUE, "adaptive action failed")>>
                /\ user_risk[u] = <<record>>
                /\ org_risk_scores[record.org_id][u] = record.overall_score

\* The step in which an emission fails counts one error and changes nothing
\* in the store.
DispatchFailureCounted ==
    \A w \in Workers :
        (pc[w] = "dispatch" /\ FailedEmissions(w)' # {}) =>
            /\ error_count'[w] = error_count[w] + 1
            /\ processed_count'[w] = processed_count[w]
            /\ UNCHANGED store_vars

\* C29: when an action of an action set fails, the actions after it are not
\* attempted, the request is answered with success false and counted in
\* error_count, the score record and ranked-set entry written before the
\* dispatch remain stored, and what was emitted before the failure stays.
C29_DispatchFailureNoRollback ==
    []DispatchFailureSurfaces /\ [][DispatchFailureCounted]_vars

\* C29 witness: of the critical set the first action was emitted and the
\* second failed; the user's record and ranking are stored.
C29_Witness ==
    \E w \in Workers :
        /\ pc[w] = "done"
        /\ executed[w] = <<"immediate_additional_training">>
        /\ Len(trace[w]) = 5
        /\ trace[w][4] = Op("publish coach.send", TRUE)
        /\ trace[w][5] = Op("publish notifications.manager", FALSE)
        /\ error_count[w] = 1
        /\ user_risk[req[w].user_id] # << >>
        /\ user_risk[req[w].user_id][1].risk_level = "critical"
        /\ org_risk_scores["o1"][req[w].user_id] = 90 * Unit

\* The text of the recommendation made for a high share of high-risk users.
OrgWideCampaign == "Implement organization-wide security awareness campaign"

\* The elements of a sequence.
Range(s) == {s[i] : i \in DOMAIN s}

\* C30: in every successful cohort result and stored snapshot, total_users
\* is the number of user IDs of the request, failed and repeated IDs counted,
\* while the average and high_risk_users are taken over the successful
\* calculations; so high_risk_users <= successful <= total_users, and the
\* recommendations' high-risk percentage is of the requested count.
C30_TotalCountsRequested ==
    [][\A w \in Workers :
          (/\ pc[w] = "cohort_store" /\ pc'[w] = "done"
           /\ resp'[w] # << >> /\ resp'[w][1].success) =>
              LET snapshot == cohort_risk'[req[w].cohort_id][1]
                  result == resp'[w][1]
                  succeeded == user_risk_scores[w]
                  requested == Len(req[w].user_ids)
                  high == Cardinality({i \in DOMAIN succeeded : succeeded[i] >= 75 * Unit})
              IN  /\ snapshot.total_users = requested
                  /\ snapshot.high_risk_users = high
                  /\ snapshot.average_risk_score * Len(succeeded) =
                        SumSeq(succeeded) * AvgUnit
                  /\ high <= Len(succeeded) /\ Len(succeeded) <= requested
                  /\ (OrgWideCampaign \in Range(snapshot.recommended_actions))
                        = (high * 100 > 25 * requested)
                  /\ result.total_users = requested
                  /\ result.high_risk_users = high
                  /\ result.average_risk_score = snapshot.average_risk_score
                  /\ result.recommendations = snapshot.recommended_actions]_vars

\* C30 witness: of four requested IDs, two of them repeated, the last failed
\* and one of the three others is high-risk: the snapshot counts four users
\* and one high-risk user, a quarter, and recommends no organization-wide
\* campaign, which a third would have.
C30_Witness ==
    \E w \in Workers :
        /\ pc[w] = "done" /\ resp[w] # << >> /\ resp[w][1].success
        /\ Len(req[w].user_ids) = 4
        /\ Op("redis.zadd org_risk_scores", FALSE) \in Range(trace[w])
        /\ cohort_risk["c1"] # << >>
        /\ cohort_risk["c1"][1].total_users = 4
        /\ cohort_risk["c1"][1].high_risk_users = 1
        /\ cohort_risk["c1"][1].average_risk_score * 3 = 130 * AvgPoint
        /\ OrgWideCampaign \notin Range(cohort_risk["c1"][1].recommended_actions)
        /\ resp[w][1].total_users = 4

====
